---- MODULE Spec2Model ----
(***************************************************************************)
(* A model of libmcfp (mhekkelman/libmcfp): the option registry of         *)
(* mcfp::config, the argument-vector parser config::parse and the          *)
(* configuration-file parser config::parse_config_file.                    *)
(*                                                                         *)
(* A C string is a sequence of one-character strings, so that the parsers  *)
(* can be modelled character by character as the code reads them.          *)
(* argv is modelled without its element 0 (the program name, which the     *)
(* code skips): argv[k] of the model is argv[k] of the code for            *)
(* 1 <= k < argc, and argc = Len(argv) + 1.  Every argv[k] with k < argc   *)
(* is a string (the C contract); the guard on a null argv[k] in parse,     *)
(* commented "should not happen", is not modelled.                         *)
(***************************************************************************)
EXTENDS Integers, Sequences, FiniteSets, TLC

\* ------------------------------------------------------------------
\* Bounds of the exploration

\* argv holds at most MaxArgs tokens after the program name
MaxArgs == 2
\* a configuration stream holds at most MaxLines lines
MaxLines == 2
\* a session makes at most MaxCalls parser calls on one registry
MaxCalls == 2

\* ------------------------------------------------------------------
\* Error codes (config_error of mcfp/error.hpp and the std::errc values
\* that std::from_chars returns)

NoError == "no_error"
unknown_option == "unknown_option"
option_does_not_accept_argument == "option_does_not_accept_argument"
missing_argument_for_option == "missing_argument_for_option"
invalid_config_file == "invalid_config_file"
invalid_argument == "invalid_argument"
result_out_of_range == "result_out_of_range"
option_not_specified == "option_not_specified"
wrong_type_cast == "wrong_type_cast"
config_file_not_found == "config_file_not_found"

\* enum class config_error: the codes of the library, each enumerator a
\* value of its own
config_error ==
    {unknown_option, option_does_not_accept_argument,
     missing_argument_for_option, option_not_specified, invalid_config_file,
     wrong_type_cast, config_file_not_found}

\* ------------------------------------------------------------------
\* Characters

NUL == "NUL"
EOF == "EOF"
Digits == {"0", "1", "2", "3", "4", "5", "6", "7", "8", "9"}
Letters == {"a", "b", "c", "d", "e", "f", "g", "h", "i", "j", "k", "l", "m",
            "n", "o", "p", "q", "r", "s", "t", "u", "v", "w", "x", "y", "z"}

DigitValue(ch) ==
    CASE ch = "0" -> 0 [] ch = "1" -> 1 [] ch = "2" -> 2 [] ch = "3" -> 3
      [] ch = "4" -> 4 [] ch = "5" -> 5 [] ch = "6" -> 6 [] ch = "7" -> 7
      [] ch = "8" -> 8 [] ch = "9" -> 9

\* std::numeric_limits<int>::max()
INT_MAX == 2147483647

\* position of the first ch in s, 0 when there is none (string_view::find)
Find(s, ch) ==
    IF \E p \in 1..Len(s) : s[p] = ch
    THEN CHOOSE p \in 1..Len(s) : s[p] = ch /\ \A q \in 1..(p - 1) : s[q] # ch
    ELSE 0

\* the characters of s from position p on
From(s, p) == SubSeq(s, p, Len(s))

\* ------------------------------------------------------------------
\* Conversion of an argument text to the stored value

\* number of leading decimal digits of s
RECURSIVE DigitRun(_)
DigitRun(s) ==
    IF s # <<>> /\ Head(s) \in Digits THEN 1 + DigitRun(Tail(s)) ELSE 0

\* value of the digit string s, with acc the value read so far
RECURSIVE DigitsValue(_, _)
DigitsValue(s, acc) ==
    IF s = <<>> THEN acc ELSE DigitsValue(Tail(s), 10 * acc + DigitValue(Head(s)))

\* std::from_chars for int: an optional minus sign and the longest run of
\* digits; characters after the run are left unread and are no error.
\* The value is left as it was (value-initialised, 0) when ec is set.
std_from_chars(argument) ==
    LET neg == argument # <<>> /\ Head(argument) = "-"
        body == IF neg THEN Tail(argument) ELSE argument
        n == DigitRun(body)
        mag == DigitsValue(SubSeq(body, 1, n), 0)
    IN  IF n = 0 THEN [value |-> 0, ec |-> invalid_argument]
        ELSE IF (neg /\ mag - 1 > INT_MAX) \/ (~neg /\ mag > INT_MAX)
             THEN [value |-> 0, ec |-> result_out_of_range]
             ELSE [value |-> IF neg THEN 0 - mag ELSE mag, ec |-> NoError]

\* option_traits<T>::set_value: the converted value, and the error code
\* the conversion sets (NoError when it sets none)
traits_set_value(type, argument) ==
    IF type = "int" THEN std_from_chars(argument)
    ELSE [value |-> argument, ec |-> NoError]

\* ------------------------------------------------------------------
\* Option descriptors

\* option_base::option_base: a one-character name is its own short name,
\* a name ending in ",X" is split into the long name and the short name X
option_base(name, type) ==
    LET n == Len(name)
        split == n > 2 /\ name[n - 1] = ","
    IN  [m_name |-> IF n # 1 /\ split THEN SubSeq(name, 1, n - 2) ELSE name,
         m_short_name |-> IF n = 1 THEN name[1]
                          ELSE IF split THEN name[n] ELSE NUL,
         m_is_flag |-> TRUE,
         m_has_default |-> FALSE,
         m_multi |-> FALSE,
         m_seen |-> 0,
         type |-> type,
         m_value |-> <<>>,
         m_values |-> <<>>]

\* option<void>: a flag
make_flag(name) == option_base(name, "void")

\* option<T>(name, desc, hidden): a single-valued option without a value.
\* m_value models std::optional: <<>> is empty, <<v>> holds v.
make_option(name, type) ==
    [option_base(name, type) EXCEPT !.m_is_flag = FALSE]

\* option<T>(name, default_value, desc, hidden)
make_option_default(name, type, default_value) ==
    [make_option(name, type) EXCEPT !.m_has_default = TRUE,
                                    !.m_value = <<default_value>>]

\* multiple_option<T>
make_multiple_option(name, type) ==
    [option_base(name, type) EXCEPT !.m_is_flag = FALSE, !.m_multi = TRUE]

\* mutant of option_set_value: a value once stored is kept
option_set_value_keep_first(opt, argument) ==
    IF opt.m_value # <<>> /\ opt.m_seen > 1 THEN opt
    ELSE [opt EXCEPT !.m_value = <<traits_set_value(opt.type, argument).value>>]

\* option<T>::set_value overwrites the stored value, also with the
\* value-initialised result of a failed conversion
option_set_value(opt, argument) ==
    [opt EXCEPT !.m_value = <<traits_set_value(opt.type, argument).value>>]

\* mutant of multiple_option_set_value: the new value replaces the old ones
multiple_option_set_value_overwrite(opt, argument) ==
    [opt EXCEPT !.m_values = <<traits_set_value(opt.type, argument).value>>]

\* multiple_option<T>::set_value appends to the stored sequence
multiple_option_set_value(opt, argument) ==
    [opt EXCEPT !.m_values = Append(@, traits_set_value(opt.type, argument).value)]

\* the virtual call opt->set_value(argument, ec): the descriptor afterwards.
\* Neither parser calls it on a flag (option_base::set_value asserts).
set_value(opt, argument) ==
    IF opt.m_multi THEN multiple_option_set_value(opt, argument)
    ELSE option_set_value(opt, argument)

\* what opt->set_value(argument, ec) leaves in ec, given ec before the call
set_value_ec(opt, argument, ec) ==
    LET r == traits_set_value(opt.type, argument)
    IN  IF r.ec # NoError THEN r.ec ELSE ec

\* config_impl::get_option(std::string_view): index of the first option
\* with that long name, 0 for nullptr
get_option(opts, name) ==
    IF \E k \in 1..Len(opts) : opts[k].m_name = name
    THEN CHOOSE k \in 1..Len(opts) :
            opts[k].m_name = name /\ \A j \in 1..(k - 1) : opts[j].m_name # name
    ELSE 0

\* config_impl::get_option(char): index of the first option with that
\* short name, 0 for nullptr
get_option_short(opts, ch) ==
    IF \E k \in 1..Len(opts) : opts[k].m_short_name = ch
    THEN CHOOSE k \in 1..Len(opts) :
            opts[k].m_short_name = ch
            /\ \A j \in 1..(k - 1) : opts[j].m_short_name # ch
    ELSE 0

\* opt->get_value(): the std::any returned, <<>> when it holds nothing.
\* A multiple_option always returns its vector, a flag never a value.
get_value(opt) ==
    IF opt.m_is_flag THEN <<>>
    ELSE IF opt.m_multi THEN <<opt.m_values>>
    ELSE opt.m_value

\* the type held by the std::any of opt->get_value()
stored_type(opt) ==
    IF ~opt.m_multi THEN opt.type
    ELSE IF opt.type = "int" THEN "vector<int>" ELSE "vector<string>"

\* mutant of get: the stored value is returned without the type check of
\* std::any_cast
get_unchecked_cast(opts, name, T) ==
    LET k == get_option(opts, name)
    IN  IF k = 0 THEN [ec |-> unknown_option, value |-> <<>>]
        ELSE IF get_value(opts[k]) = <<>>
             THEN [ec |-> option_not_specified, value |-> <<>>]
             ELSE [ec |-> NoError, value |-> get_value(opts[k])]

\* config::get<T>(name, ec) called with a clear ec: the error code set
\* and the value returned (<<>> stands for the value-initialised result
\* of a failed get)
get(opts, name, T) ==
    LET k == get_option(opts, name)
    IN  IF k = 0 THEN [ec |-> unknown_option, value |-> <<>>]
        ELSE IF get_value(opts[k]) = <<>>
             THEN [ec |-> option_not_specified, value |-> <<>>]
             ELSE IF stored_type(opts[k]) # T
                  THEN [ec |-> wrong_type_cast, value |-> <<>>]
                  ELSE [ec |-> NoError, value |-> get_value(opts[k])]

\* what config::get<T>(name, ec) leaves in ec, given ec before the call:
\* ec is only assigned when the query fails
get_ec(opts, name, T, ec) ==
    LET r == get(opts, name, T)
    IN  IF r.ec # NoError THEN r.ec ELSE ec

\* config::get<T>(name): whether std::system_error is thrown, the error
\* code it carries and the value returned otherwise
get_throwing(opts, name, T) ==
    LET r == get(opts, name, T)
    IN  IF r.ec # NoError THEN [thrown |-> TRUE, ec |-> r.ec, value |-> <<>>]
        ELSE [thrown |-> FALSE, ec |-> NoError, value |-> r.value]

\* config::count
count(opts, name) ==
    IF get_option(opts, name) = 0 THEN 0 ELSE opts[get_option(opts, name)].m_seen

\* mutant of has: a default value does not count
has_seen_only(opts, name) ==
    LET k == get_option(opts, name)
    IN  k # 0 /\ opts[k].m_seen > 0

\* config::has
has(opts, name) ==
    LET k == get_option(opts, name)
    IN  k # 0 /\ (opts[k].m_seen > 0 \/ opts[k].m_has_default)


\* ------------------------------------------------------------------
\* config::parse(argc, argv, ec)
\*
\* A parser state S holds the members of the config object that parse
\* reads and writes (opts: m_impl->m_options, operands:
\* m_impl->m_operands, ign: m_ignore_unknown), its parameters and locals
\* (argv, i, state, ec) and three observers that record what the loop did:
\* consumed (the indices of the tokens taken as an option's argument),
\* termAt (the index of the token "--" that ended the options, 0 if none)
\* and occ (one entry for every set_value call: the option, the index of
\* its token and the argument text).

argc(S) == Len(S.argv) + 1

\* mutant of parse_operand: the operand replaces those stored before
parse_operand_replaces(S) == [S EXCEPT !.operands = <<S.argv[S.i]>>]

\* mutant of parse_operand: the POSIX cutover, the first operand ends the
\* options
parse_operand_posix(S) ==
    [S EXCEPT !.operands = Append(@, S.argv[S.i]), !.state = "operands"]

\* m_impl->m_operands.emplace_back(arg)
parse_operand(S) == [S EXCEPT !.operands = Append(@, S.argv[S.i])]

\* mutant of parse_terminator: "--" is skipped but the options go on
parse_terminator_no_switch(S) == [S EXCEPT !.termAt = S.i]

\* the token "--" in state options: state = State::operands
parse_terminator(S) == [S EXCEPT !.state = "operands", !.termAt = S.i]

\* the tail of the loop body: opt is a value option whose m_seen was
\* incremented, opt_arg the argument found in its own token (may be empty)
parse_argument(S, opt, opt_arg) ==
    LET take == opt_arg = <<>> /\ S.i + 1 < argc(S)
        j == IF take THEN S.i + 1 ELSE S.i
        a == IF take THEN S.argv[j] ELSE opt_arg
        T == [S EXCEPT !.i = j,
                       !.consumed = IF take THEN @ \cup {j} ELSE @]
    IN  IF a = <<>>
        THEN [T EXCEPT !.ec = missing_argument_for_option]
        ELSE [T EXCEPT !.opts[opt] = set_value(@, a),
                       !.ec = set_value_ec(S.opts[opt], a, @),
                       !.occ = Append(@, [opt |-> opt, at |-> S.i, arg |-> a])]

\* mutant of parse_long: the "=" is left in front of the value
parse_long_keeps_equals(S, arg) ==
    LET p == Find(arg, "=")
        opt_arg == IF p # 0 THEN From(arg, p) ELSE <<>>
        s_arg == IF p # 0 THEN SubSeq(arg, 1, p - 1) ELSE arg
        opt == get_option(S.opts, s_arg)
    IN  IF opt = 0
        THEN IF ~S.ign THEN [S EXCEPT !.ec = unknown_option] ELSE S
        ELSE IF S.opts[opt].m_is_flag
             THEN [S EXCEPT !.ec = IF opt_arg # <<>>
                                   THEN option_does_not_accept_argument ELSE @,
                            !.opts[opt].m_seen = @ + 1]
             ELSE parse_argument([S EXCEPT !.opts[opt].m_seen = @ + 1], opt, opt_arg)

\* mutant of parse_long: an ignored unknown option is kept as an operand
parse_long_unknown_operand(S, arg) ==
    LET p == Find(arg, "=")
        opt_arg == IF p # 0 THEN From(arg, p + 1) ELSE <<>>
        s_arg == IF p # 0 THEN SubSeq(arg, 1, p - 1) ELSE arg
        opt == get_option(S.opts, s_arg)
    IN  IF opt = 0
        THEN IF ~S.ign THEN [S EXCEPT !.ec = unknown_option]
             ELSE [S EXCEPT !.operands = Append(@, S.argv[S.i])]
        ELSE IF S.opts[opt].m_is_flag
             THEN [S EXCEPT !.ec = IF opt_arg # <<>>
                                   THEN option_does_not_accept_argument ELSE @,
                            !.opts[opt].m_seen = @ + 1]
             ELSE parse_argument([S EXCEPT !.opts[opt].m_seen = @ + 1], opt, opt_arg)

\* mutant of parse_long: a flag with an inline value is handed the value
\* (set_value is called on the flag)
parse_long_flag_set_value(S, arg) ==
    LET p == Find(arg, "=")
        opt_arg == IF p # 0 THEN From(arg, p + 1) ELSE <<>>
        s_arg == IF p # 0 THEN SubSeq(arg, 1, p - 1) ELSE arg
        opt == get_option(S.opts, s_arg)
    IN  IF opt = 0
        THEN IF ~S.ign THEN [S EXCEPT !.ec = unknown_option] ELSE S
        ELSE IF S.opts[opt].m_is_flag
             THEN [S EXCEPT !.opts[opt].m_seen = @ + 1,
                            !.occ = IF opt_arg # <<>>
                                    THEN Append(@, [opt |-> opt, at |-> S.i, arg |-> opt_arg])
                                    ELSE @]
             ELSE parse_argument([S EXCEPT !.opts[opt].m_seen = @ + 1], opt, opt_arg)

\* a token "--name" or "--name=value"; arg is the text after "--"
parse_long(S, arg) ==
    LET p == Find(arg, "=")
        opt_arg == IF p # 0 THEN From(arg, p + 1) ELSE <<>>
        s_arg == IF p # 0 THEN SubSeq(arg, 1, p - 1) ELSE arg
        opt == get_option(S.opts, s_arg)
    IN  IF opt = 0
        THEN IF ~S.ign THEN [S EXCEPT !.ec = unknown_option] ELSE S
        ELSE IF S.opts[opt].m_is_flag
             THEN [S EXCEPT !.ec = IF opt_arg # <<>>
                                   THEN option_does_not_accept_argument ELSE @,
                            !.opts[opt].m_seen = @ + 1]
             ELSE parse_argument([S EXCEPT !.opts[opt].m_seen = @ + 1], opt, opt_arg)

\* mutant of parse_short: the loop stops after the first flag of a cluster
parse_short_first_only(S, arg) ==
    IF arg = <<>> \/ S.ec # NoError THEN S
    ELSE LET opt == get_option_short(S.opts, Head(arg))
         IN  IF opt = 0
             THEN IF ~S.ign THEN [S EXCEPT !.ec = unknown_option] ELSE S
             ELSE IF S.opts[opt].m_is_flag
                  THEN [S EXCEPT !.opts[opt].m_seen = @ + 1]
                  ELSE parse_argument([S EXCEPT !.opts[opt].m_seen = @ + 1],
                                      opt, Tail(arg))

\* the while loop over the characters arg of a token "-abc"
RECURSIVE parse_short(_, _)
parse_short(S, arg) ==
    IF arg = <<>> \/ S.ec # NoError THEN S
    ELSE LET opt == get_option_short(S.opts, Head(arg))
         IN  IF opt = 0
             THEN parse_short(IF ~S.ign THEN [S EXCEPT !.ec = unknown_option] ELSE S,
                              Tail(arg))
             ELSE IF S.opts[opt].m_is_flag
                  THEN parse_short([S EXCEPT !.opts[opt].m_seen = @ + 1], Tail(arg))
                  ELSE parse_argument([S EXCEPT !.opts[opt].m_seen = @ + 1],
                                      opt, Tail(arg))

\* mutant of IsOperandToken: a lone "-" is taken as an operand
IsOperandToken_lone_dash(S) ==
    IF S.state = "operands" THEN TRUE
    ELSE IF S.argv[S.i] = <<>> THEN TRUE
    ELSE S.argv[S.i][1] # "-" \/ S.argv[S.i] = <<"-">>

\* which branch of the loop body the token argv[i] takes
IsOperandToken(S) ==
    IF S.state = "operands" THEN TRUE
    ELSE IF S.argv[S.i] = <<>> THEN TRUE
    ELSE S.argv[S.i][1] # "-"

IsTerminatorToken(S) ==
    S.state = "options" /\ S.argv[S.i] = <<"-", "-">>

IsLongToken(S) ==
    IF IsOperandToken(S) \/ IsTerminatorToken(S) THEN FALSE
    ELSE IF Len(S.argv[S.i]) < 2 THEN FALSE
    ELSE S.argv[S.i][2] = "-"

IsShortToken(S) ==
    ~IsOperandToken(S) /\ ~IsTerminatorToken(S) /\ ~IsLongToken(S)

\* one iteration of the for loop, with its ++i
parse_iter(S) ==
    LET arg == S.argv[S.i]
        R == IF IsOperandToken(S) THEN parse_operand(S)
             ELSE IF IsTerminatorToken(S) THEN parse_terminator(S)
             ELSE IF IsLongToken(S) THEN parse_long(S, From(arg, 3))
             ELSE parse_short(S, Tail(arg))
    IN  [R EXCEPT !.i = @ + 1]

\* mutant of parse_continues: the loop runs to the end of argv whatever ec
parse_continues_ignores_ec(S) == S.i < argc(S)

\* the loop condition i < argc and not ec
parse_continues(S) == S.i < argc(S) /\ S.ec = NoError

\* the state in which parse starts
parse_entry(opts, operands, ign, argv) ==
    [opts |-> opts, operands |-> operands, ign |-> ign, argv |-> argv,
     i |-> 1, state |-> "options", ec |-> NoError,
     consumed |-> {}, termAt |-> 0, occ |-> <<>>]

\* the whole loop, from S to the state in which parse returns
RECURSIVE parse_run(_)
parse_run(S) == IF parse_continues(S) THEN parse_run(parse_iter(S)) ELSE S

\* parse(argc, argv, ec) on a config object: the state in which it returns
parse(opts, operands, ign, argv) ==
    parse_run(parse_entry(opts, operands, ign, argv))

\* parse(argc, argv), the overload without ec: what it throws, <<>> when
\* it returns. The std::system_error is built from ec alone.
parse_throws(opts, operands, ign, argv) ==
    LET R == parse(opts, operands, ign, argv)
    IN  IF R.ec # NoError THEN <<[code |-> R.ec]>> ELSE <<>>


\* ------------------------------------------------------------------
\* config::parse_config_file(std::istream &is, std::error_code &ec)
\*
\* A lexer state C holds the members of the config object the function
\* reads and writes (opts, ign), the stream (buffer, with pos the index
\* of the next character sbumpc returns), the locals state, name, value
\* and ec, eof (the character just read was end-of-stream) and two
\* observers: lines (one entry for every end-of-line that closed a name
\* or an assignment: the name, the value and whether an "=" was read) and
\* occ (one entry for every set_value call).

SP == " "
TAB == "\t"
LF == "\n"
CR == "\r"

\* config::is_name_char
is_name_char(ch) == ch \in Letters \cup Digits \cup {"_", "-"}

\* mutant of is_eoln: the end of the stream ends no line
is_eoln_no_eof(ch) == ch \in {LF, CR}

\* config::is_eoln
is_eoln(ch) == ch \in {LF, CR, EOF}

\* buffer.sbumpc(): the character read
sbumpc(C) == IF C.pos <= Len(C.buffer) THEN C.buffer[C.pos] ELSE EOF

\* mutant of cfg_name_eoln: an unknown name is always skipped
cfg_name_eoln_skips_unknown(C) ==
    LET opt == get_option(C.opts, C.name)
        D == [C EXCEPT !.state = "NAME_START",
                       !.lines = Append(@, [name |-> C.name, value |-> <<>>,
                                            assign |-> FALSE])]
    IN  IF opt = 0 THEN D
        ELSE IF ~C.opts[opt].m_is_flag
             THEN [D EXCEPT !.ec = missing_argument_for_option]
             ELSE [D EXCEPT !.opts[opt].m_seen = @ + 1]

\* mutant of cfg_name_eoln: a flag is counted on its first line only, as
\* a value is taken from its first assignment only
cfg_name_eoln_first_wins(C) ==
    LET opt == get_option(C.opts, C.name)
        D == [C EXCEPT !.state = "NAME_START",
                       !.lines = Append(@, [name |-> C.name, value |-> <<>>,
                                            assign |-> FALSE])]
    IN  IF opt = 0
        THEN IF ~C.ign THEN [D EXCEPT !.ec = unknown_option] ELSE D
        ELSE IF ~C.opts[opt].m_is_flag
             THEN [D EXCEPT !.ec = missing_argument_for_option]
             ELSE IF C.opts[opt].m_seen = 0
                  THEN [D EXCEPT !.opts[opt].m_seen = @ + 1]
                  ELSE D

\* end-of-line after a bare name, in state NAME or ASSIGN
cfg_name_eoln(C) ==
    LET opt == get_option(C.opts, C.name)
        D == [C EXCEPT !.state = "NAME_START",
                       !.lines = Append(@, [name |-> C.name, value |-> <<>>,
                                            assign |-> FALSE])]
    IN  IF opt = 0
        THEN IF ~C.ign THEN [D EXCEPT !.ec = unknown_option] ELSE D
        ELSE IF ~C.opts[opt].m_is_flag
             THEN [D EXCEPT !.ec = missing_argument_for_option]
             ELSE [D EXCEPT !.opts[opt].m_seen = @ + 1]

\* mutant of cfg_value_eoln: m_seen is not incremented when a value is set
cfg_value_eoln_no_count(C) ==
    LET opt == get_option(C.opts, C.name)
        D == [C EXCEPT !.state = "NAME_START",
                       !.lines = Append(@, [name |-> C.name, value |-> C.value,
                                            assign |-> TRUE])]
    IN  IF opt = 0
        THEN IF ~C.ign THEN [D EXCEPT !.ec = unknown_option] ELSE D
        ELSE IF C.opts[opt].m_is_flag
             THEN [D EXCEPT !.ec = option_does_not_accept_argument]
             ELSE IF C.value # <<>>
                     /\ (C.opts[opt].m_seen = 0 \/ C.opts[opt].m_multi)
                  THEN [D EXCEPT !.opts[opt] = set_value(@, C.value),
                                 !.ec = set_value_ec(C.opts[opt], C.value, @),
                                 !.occ = Append(@, [opt |-> opt, arg |-> C.value])]
                  ELSE D

\* mutant of cfg_value_eoln: every assignment overwrites, as in parse
cfg_value_eoln_overwrite(C) ==
    LET opt == get_option(C.opts, C.name)
        D == [C EXCEPT !.state = "NAME_START",
                       !.lines = Append(@, [name |-> C.name, value |-> C.value,
                                            assign |-> TRUE])]
    IN  IF opt = 0
        THEN IF ~C.ign THEN [D EXCEPT !.ec = unknown_option] ELSE D
        ELSE IF C.opts[opt].m_is_flag
             THEN [D EXCEPT !.ec = option_does_not_accept_argument]
             ELSE IF C.value # <<>>
                  THEN [D EXCEPT !.opts[opt] =
                                     [set_value(@, C.value) EXCEPT !.m_seen = @ + 1],
                                 !.ec = set_value_ec(C.opts[opt], C.value, @),
                                 !.occ = Append(@, [opt |-> opt, arg |-> C.value])]
                  ELSE D

\* mutant of cfg_value_eoln: a flag given a value is counted all the same,
\* as parse counts "--flag=value"
cfg_value_eoln_flag_counted(C) ==
    LET opt == get_option(C.opts, C.name)
        D == [C EXCEPT !.state = "NAME_START",
                       !.lines = Append(@, [name |-> C.name, value |-> C.value,
                                            assign |-> TRUE])]
    IN  IF opt = 0
        THEN IF ~C.ign THEN [D EXCEPT !.ec = unknown_option] ELSE D
        ELSE IF C.opts[opt].m_is_flag
             THEN [D EXCEPT !.ec = option_does_not_accept_argument,
                            !.opts[opt].m_seen = @ + 1]
             ELSE IF C.value # <<>>
                     /\ (C.opts[opt].m_seen = 0 \/ C.opts[opt].m_multi)
                  THEN [D EXCEPT !.opts[opt] =
                                     [set_value(@, C.value) EXCEPT !.m_seen = @ + 1],
                                 !.ec = set_value_ec(C.opts[opt], C.value, @),
                                 !.occ = Append(@, [opt |-> opt, arg |-> C.value])]
                  ELSE D

\* mutant of cfg_value_eoln: an empty value is a missing argument
cfg_value_eoln_empty_missing(C) ==
    LET opt == get_option(C.opts, C.name)
        D == [C EXCEPT !.state = "NAME_START",
                       !.lines = Append(@, [name |-> C.name, value |-> C.value,
                                            assign |-> TRUE])]
    IN  IF opt = 0
        THEN IF ~C.ign THEN [D EXCEPT !.ec = unknown_option] ELSE D
        ELSE IF C.opts[opt].m_is_flag
             THEN [D EXCEPT !.ec = option_does_not_accept_argument]
             ELSE IF C.value = <<>>
                  THEN [D EXCEPT !.ec = missing_argument_for_option]
                  ELSE IF C.opts[opt].m_seen = 0 \/ C.opts[opt].m_multi
                  THEN [D EXCEPT !.opts[opt] =
                                     [set_value(@, C.value) EXCEPT !.m_seen = @ + 1],
                                 !.ec = set_value_ec(C.opts[opt], C.value, @),
                                 !.occ = Append(@, [opt |-> opt, arg |-> C.value])]
                  ELSE D

\* end-of-line after "name =", in state VALUE_START or VALUE
cfg_value_eoln(C) ==
    LET opt == get_option(C.opts, C.name)
        D == [C EXCEPT !.state = "NAME_START",
                       !.lines = Append(@, [name |-> C.name, value |-> C.value,
                                            assign |-> TRUE])]
    IN  IF opt = 0
        THEN IF ~C.ign THEN [D EXCEPT !.ec = unknown_option] ELSE D
        ELSE IF C.opts[opt].m_is_flag
             THEN [D EXCEPT !.ec = option_does_not_accept_argument]
             ELSE IF C.value # <<>>
                     /\ (C.opts[opt].m_seen = 0 \/ C.opts[opt].m_multi)
                  THEN [D EXCEPT !.opts[opt] =
                                     [set_value(@, C.value) EXCEPT !.m_seen = @ + 1],
                                 !.ec = set_value_ec(C.opts[opt], C.value, @),
                                 !.occ = Append(@, [opt |-> opt, arg |-> C.value])]
                  ELSE D

\* mutant of cfg_switch: a character that no state accepts is skipped
cfg_switch_lenient(C, ch) ==
    CASE C.state = "NAME_START" ->
            IF is_name_char(ch)
            THEN [C EXCEPT !.name = <<ch>>, !.value = <<>>, !.state = "NAME"]
            ELSE IF ch = "#" THEN [C EXCEPT !.state = "COMMENT"]
            ELSE C
      [] C.state = "COMMENT" ->
            IF is_eoln(ch) THEN [C EXCEPT !.state = "NAME_START"] ELSE C
      [] C.state = "NAME" ->
            IF is_name_char(ch) THEN [C EXCEPT !.name = Append(@, ch)]
            ELSE IF is_eoln(ch) THEN cfg_name_eoln(C)
            ELSE [C EXCEPT !.pos = @ - 1, !.state = "ASSIGN"]
      [] C.state = "ASSIGN" ->
            IF ch = "=" THEN [C EXCEPT !.state = "VALUE_START"]
            ELSE IF is_eoln(ch) THEN cfg_name_eoln(C)
            ELSE IF ch # SP /\ ch # TAB
                 THEN [C EXCEPT !.ec = invalid_config_file]
                 ELSE C
      [] C.state \in {"VALUE_START", "VALUE"} ->
            IF is_eoln(ch) THEN cfg_value_eoln(C)
            ELSE IF C.state = "VALUE" THEN [C EXCEPT !.value = Append(@, ch)]
            ELSE IF ch # SP /\ ch # TAB
                 THEN [C EXCEPT !.value = <<ch>>, !.state = "VALUE"]
                 ELSE C

\* mutant of cfg_switch: a "#" in a value starts a comment and blanks
\* are not kept in a value
cfg_switch_value_trimmed(C, ch) ==
    CASE C.state = "NAME_START" ->
            IF is_name_char(ch)
            THEN [C EXCEPT !.name = <<ch>>, !.value = <<>>, !.state = "NAME"]
            ELSE IF ch = "#" THEN [C EXCEPT !.state = "COMMENT"]
            ELSE IF ch # SP /\ ch # TAB /\ ~is_eoln(ch)
                 THEN [C EXCEPT !.ec = invalid_config_file]
                 ELSE C
      [] C.state = "COMMENT" ->
            IF is_eoln(ch) THEN [C EXCEPT !.state = "NAME_START"] ELSE C
      [] C.state = "NAME" ->
            IF is_name_char(ch) THEN [C EXCEPT !.name = Append(@, ch)]
            ELSE IF is_eoln(ch) THEN cfg_name_eoln(C)
            ELSE [C EXCEPT !.pos = @ - 1, !.state = "ASSIGN"]
      [] C.state = "ASSIGN" ->
            IF ch = "=" THEN [C EXCEPT !.state = "VALUE_START"]
            ELSE IF is_eoln(ch) THEN cfg_name_eoln(C)
            ELSE IF ch # SP /\ ch # TAB
                 THEN [C EXCEPT !.ec = invalid_config_file]
                 ELSE C
      [] C.state \in {"VALUE_START", "VALUE"} ->
            IF is_eoln(ch) THEN cfg_value_eoln(C)
            ELSE IF ch = SP \/ ch = TAB \/ ch = "#" THEN C
            ELSE IF C.state = "VALUE" THEN [C EXCEPT !.value = Append(@, ch)]
            ELSE [C EXCEPT !.value = <<ch>>, !.state = "VALUE"]

\* the switch on state, for the character ch just read
cfg_switch(C, ch) ==
    CASE C.state = "NAME_START" ->
            IF is_name_char(ch)
            THEN [C EXCEPT !.name = <<ch>>, !.value = <<>>, !.state = "NAME"]
            ELSE IF ch = "#" THEN [C EXCEPT !.state = "COMMENT"]
            ELSE IF ch # SP /\ ch # TAB /\ ~is_eoln(ch)
                 THEN [C EXCEPT !.ec = invalid_config_file]
                 ELSE C
      [] C.state = "COMMENT" ->
            IF is_eoln(ch) THEN [C EXCEPT !.state = "NAME_START"] ELSE C
      [] C.state = "NAME" ->
            IF is_name_char(ch) THEN [C EXCEPT !.name = Append(@, ch)]
            ELSE IF is_eoln(ch) THEN cfg_name_eoln(C)
            ELSE [C EXCEPT !.pos = @ - 1, !.state = "ASSIGN"]
      [] C.state = "ASSIGN" ->
            IF ch = "=" THEN [C EXCEPT !.state = "VALUE_START"]
            ELSE IF is_eoln(ch) THEN cfg_name_eoln(C)
            ELSE IF ch # SP /\ ch # TAB
                 THEN [C EXCEPT !.ec = invalid_config_file]
                 ELSE C
      [] C.state \in {"VALUE_START", "VALUE"} ->
            IF is_eoln(ch) THEN cfg_value_eoln(C)
            ELSE IF C.state = "VALUE" THEN [C EXCEPT !.value = Append(@, ch)]
            ELSE IF ch # SP /\ ch # TAB
                 THEN [C EXCEPT !.value = <<ch>>, !.state = "VALUE"]
                 ELSE C

\* one iteration of the for (;;) loop: read a character, act on it
cfg_iter(C) ==
    LET ch == sbumpc(C)
        B == [C EXCEPT !.pos = IF ch = EOF THEN @ ELSE @ + 1,
                       !.eof = (ch = EOF)]
    IN  cfg_switch(B, ch)

\* the loop goes on unless ec is set or end-of-stream was read
cfg_continues(C) == C.ec = NoError /\ ~C.eof

\* the state in which parse_config_file starts
cfg_entry(opts, ign, buffer) ==
    [opts |-> opts, ign |-> ign, buffer |-> buffer, pos |-> 1,
     state |-> "NAME_START", name |-> <<>>, value |-> <<>>,
     ec |-> NoError, eof |-> FALSE, lines |-> <<>>, occ |-> <<>>]

\* the whole loop, from C to the state in which the function returns
RECURSIVE cfg_run(_)
cfg_run(C) == IF cfg_continues(C) THEN cfg_run(cfg_iter(C)) ELSE C

\* parse_config_file(is, ec) on a config object
parse_config_file(opts, ign, buffer) == cfg_run(cfg_entry(opts, ign, buffer))

\* ------------------------------------------------------------------
\* config::parse_config_file(config_option, config_file_name, search_dirs, ec)
\*
\* The file system fs is a set of files [dir, name, content]; a directory
\* holds at most one file of a name.

\* std::ifstream file(dir / file_name); file.is_open()
is_open(fs, dir, file_name) ==
    \E f \in fs : f.dir = dir /\ f.name = file_name

\* the stream of the file that was opened
file_content(fs, dir, file_name) ==
    (CHOOSE f \in fs : f.dir = dir /\ f.name = file_name).content

\* the for loop over search_dirs: the position of the first directory in
\* which the file opens, 0 when it opens in none
first_open(fs, search_dirs, file_name) ==
    LET P == {p \in 1..Len(search_dirs) : is_open(fs, search_dirs[p], file_name)}
    IN  IF P = {} THEN 0 ELSE CHOOSE p \in P : \A q \in P : p <= q

\* the whole function, called with a clear ec: the options and ec it
\* leaves, and whether get<std::string>(config_option) threw (then the
\* std::system_error leaves the function and ec is not assigned)
parse_config_file_search(opts, ign, config_option, config_file_name, search_dirs, fs) ==
    LET given == has(opts, config_option)
        g == get_throwing(opts, config_option, "string")
        file_name == IF given /\ ~g.thrown THEN g.value[1] ELSE config_file_name
        p == first_open(fs, search_dirs, file_name)
    IN  IF given /\ g.thrown
        THEN [opts |-> opts, ec |-> NoError, thrown |-> TRUE, exception |-> g.ec,
              file_name |-> config_file_name, parsed_config_file |-> FALSE]
        ELSE IF p # 0
        THEN LET R == parse_config_file(opts, ign,
                                        file_content(fs, search_dirs[p], file_name))
             IN  [opts |-> R.opts, ec |-> R.ec, thrown |-> FALSE,
                  exception |-> NoError, file_name |-> file_name,
                  parsed_config_file |-> TRUE]
        ELSE [opts |-> opts, ec |-> IF given THEN config_file_not_found ELSE NoError,
              thrown |-> FALSE, exception |-> NoError, file_name |-> file_name,
              parsed_config_file |-> FALSE]

\* ------------------------------------------------------------------
\* The registries and the inputs explored

\* the sequences over X of length at most n
SeqsUpTo(X, n) == UNION {[1..m -> X] : m \in 0..n}

\* init("...", make_option("vb,v", ""), make_option("q", "")):
\* a registry of flags only (TEST_CASE t_2)
RegFlags ==
    <<make_flag(<<"v", "b", ",", "v">>),
      make_flag(<<"q">>)>>

\* a registry with a flag, an int option, a multi-valued string option, a
\* string option with a one-character name and a long-only string option
\* with a default value (TEST_CASE t_5, t_8, t_11, file_3)
RegMixed ==
    <<make_flag(<<"v", "b", ",", "v">>),
      make_option(<<"n", "r", ",", "i">>, "int"),
      make_multiple_option(<<"f", "l", ",", "f">>, "string"),
      make_option(<<"s">>, "string"),
      make_option_default(<<"c", "f">>, "string", <<"d">>)>>

Registries == {RegFlags, RegMixed}

FlagsOnly(opts) == \A k \in 1..Len(opts) : opts[k].m_is_flag

\* the tokens tried on a registry of flags
FlagTokens ==
    {<<"x">>, <<"-", "-">>, <<"-", "v">>, <<"-", "q">>, <<"-", "v", "q">>,
     <<"-", "q", "v", "v">>, <<"-", "v", "v", "v", "v">>,
     <<"-", "-", "v", "b">>, <<"-", "-", "q">>, <<"-", "z">>}

\* the tokens tried on the mixed registry
MixedTokens ==
    {<<>>, <<"x">>, <<"7">>, <<"-">>, <<"-", "-">>, <<"-", "v">>,
     <<"-", "-", "v", "b">>, <<"-", "-", "v", "b", "=", "x">>,
     <<"-", "-", "v", "b", "=">>, <<"-", "i">>, <<"-", "i", "7">>,
     <<"-", "i", "8">>, <<"-", "i", "x">>, <<"-", "v", "i", "7">>,
     <<"-", "-", "n", "r">>, <<"-", "-", "n", "r", "=", "7">>,
     <<"-", "-", "n", "r", "=", "x">>, <<"-", "f">>, <<"-", "f", "x">>,
     <<"-", "-", "f", "l", "=", "y">>, <<"-", "s">>, <<"-", "s", "x">>,
     <<"-", "-", "s">>, <<"-", "-", "s", "=", "x">>,
     <<"-", "-", "s", "=", "7">>, <<"-", "z">>, <<"-", "v", "z">>,
     <<"-", "-", "z", "z">>, <<"-", "-", "z", "z", "=", "x">>,
     <<"-", "-", "c", "f", "=", "x">>}

\* longer argument vectors, after TEST_CASE t_5, t_6, t_7 and t_11
LongArgvs ==
    {<<<<"-", "i">>, <<"7">>, <<"-", "s", "x">>, <<"x">>, <<"x">>>>,
     <<<<"-", "-">>, <<"-", "i">>, <<"7">>, <<"-", "s", "x">>, <<"x">>>>,
     <<<<"-", "f", "x">>, <<"-", "f">>, <<"y">>, <<"-", "-", "f", "l", "=", "y">>>>,
     <<<<"x">>, <<"-", "v">>, <<"7">>, <<"-", "-">>, <<"-", "v">>>>,
     <<<<"-", "i">>, <<"7">>, <<"-", "i">>, <<"8">>>>,
     <<<<"x">>, <<"-", "i">>, <<"7">>>>}

\* the four ways to give the single-valued option o the value text V
Forms(o, V) ==
    {<< <<"-", "-">> \o o.m_name \o <<"=">> \o V >>,
     << <<"-", "-">> \o o.m_name, V >>,
     << <<"-", o.m_short_name>> \o V >>,
     << <<"-", o.m_short_name>>, V >>}

\* value texts with "=", with characters after a number and with a sign
ExtraValueTexts == {<<"7", "x">>, <<"=", "x">>, <<"a", "=", "b">>, <<"-", "7">>}

\* the four forms of these texts for the int option and the string option
\* of the mixed registry (TEST_CASE t_3, t_4)
FormArgvs == UNION {Forms(RegMixed[k], V) : k \in {2, 4}, V \in ExtraValueTexts}

TokensFor(opts) == IF FlagsOnly(opts) THEN FlagTokens ELSE MixedTokens

\* the argument vectors a session may start with
ArgvsFor(opts) ==
    SeqsUpTo(TokensFor(opts), MaxArgs)
        \cup (IF FlagsOnly(opts) THEN {} ELSE LongArgvs \cup FormArgvs)

\* the lines tried on a registry of flags (a line holds its end-of-line, if any)
FlagLines ==
    {<<"v", "b", "\n">>, <<"q", "\n">>, <<"v", "b", "=", "1", "\n">>,
     <<"z", "z", "\n">>, <<"#", "q", "\n">>, <<"q">>}

\* the lines tried on the mixed registry, after TEST_CASE file_1 and file_2
MixedLines ==
    {<<"n", "r", "=", "7", "\n">>, <<"n", "r", " ", "=", " ", "8", "\n">>,
     <<"n", "r", "=", "x", "\n">>, <<"n", "r", "\n">>,
     <<"n", "r", "=", "\n">>, <<"n", "r", "=", " ", "\t", "\n">>,
     <<"v", "b", "\n">>, <<"v", "b", " ", "\r">>,
     <<"v", "b", "=", "1", "\n">>, <<"v", "b">>,
     <<"f", "l", "=", "x", "\n">>, <<"f", "l", "=", "y", "\n">>,
     <<"s", "=", "a", " ", "#", "\n">>, <<"s", "=", "x">>,
     <<"c", "f", "=", "x", "\n">>, <<"z", "z", "=", "1", "\n">>,
     <<"z", "z", "\n">>, <<"#", " ", "s", "=", "x", "\n">>, <<"\n">>,
     <<" ", "\t">>, <<"n", "r", " ", "!", "\n">>, <<"!", "\n">>,
     <<"#", "!", "\n">>, <<"s", "=", "!", "\n">>, <<"n", "r", " ", "x", "\n">>,
     <<" ", "s", "\t", "=", "\t", "a", " ", "#", " ", "\n">>}

LinesFor(opts) == IF FlagsOnly(opts) THEN FlagLines ELSE MixedLines

\* the concatenation of the strings of ss
RECURSIVE Flatten(_)
Flatten(ss) == IF ss = <<>> THEN <<>> ELSE Head(ss) \o Flatten(Tail(ss))

\* the configuration streams a session may start with
StreamsFor(opts) == {Flatten(ls) : ls \in SeqsUpTo(LinesFor(opts), MaxLines)}

\* the argument vectors of a session of several calls, after TEST_CASE
\* t_12, file_3 and file_4
SessionArgvs ==
    {<<<<"-", "-", "n", "r", "=", "7">>>>,
     <<<<"-", "s", "x">>, <<"x">>>>,
     <<<<"-", "-">>, <<"-", "v">>>>,
     <<<<"-", "-", "c", "f", "=", "x">>>>,
     <<<<"-", "-", "z", "z">>>>}

\* the configuration streams of such a session
SessionStreams ==
    {<<"n", "r", " ", "=", " ", "8", "\n", "s", "=", "a", " ", "#", "\n">>,
     <<"#", " ", "s", "=", "x", "\n", "n", "r", "=", "8", "\n", "n", "r",
       "=", "7", "\n">>,
     <<"v", "b", "\n", "c", "f", "=", "x", "\n">>,
     <<"f", "l", "=", "y", "\n", "s", "=", "y">>,
     <<"z", "z", "=", "1", "\n", "n", "r", "=", "8", "\n">>}

\* ------------------------------------------------------------------
\* The state machine
\*
\* m_options, m_operands, m_ignore_unknown: the config object.
\* pc: "idle" between calls, "parse" inside config::parse, "cfg" inside
\*     config::parse_config_file(std::istream &, std::error_code &).
\* fr: the frame of the running call, kept after it returned until the
\*     next call starts (its ec is what the caller receives), with opts0
\*     and operands0 the registry state in which the call started and
\*     before the names of the calls that returned earlier.
\* pending: the calls the program still makes, in order.
VARIABLES m_options, m_operands, m_ignore_unknown, pc, fr, pending

vars == <<m_options, m_operands, m_ignore_unknown, pc, fr, pending>>

NoFrame == [op |-> "none", ec |-> NoError, before |-> <<>>, clean |-> TRUE]

\* the calls that run a parser
ParserOps == {"parse", "parse_config_file", "parse_config_file_search"}

\* the parser calls that returned before the next call, in order
Returned == IF fr.op \in ParserOps THEN Append(fr.before, fr.op) ELSE fr.before

\* every parser call that returned so far returned without error
Clean == IF fr.op \in ParserOps THEN fr.clean /\ fr.ec = NoError ELSE fr.clean

\* the parser state of the running parse call
Cur ==
    [opts |-> m_options, operands |-> m_operands, ign |-> m_ignore_unknown,
     argv |-> fr.argv, i |-> fr.i, state |-> fr.state, ec |-> fr.ec,
     consumed |-> fr.consumed, termAt |-> fr.termAt, occ |-> fr.occ]

\* write the parser state R back to the config object and the frame
Store(R) ==
    /\ m_options' = R.opts
    /\ m_operands' = R.operands
    /\ fr' = [fr EXCEPT !.i = R.i, !.state = R.state, !.ec = R.ec,
                        !.consumed = R.consumed, !.termAt = R.termAt,
                        !.occ = R.occ]
    /\ UNCHANGED <<m_ignore_unknown, pc, pending>>

\* config::set_ignore_unknown
SetIgnoreUnknown ==
    /\ pc = "idle"
    /\ pending # <<>>
    /\ Head(pending).op = "set_ignore_unknown"
    /\ m_ignore_unknown' = Head(pending).v
    /\ pending' = Tail(pending)
    /\ UNCHANGED <<m_options, m_operands, pc, fr>>

\* the caller enters parse(argc, argv, ec) with a clear ec
CallParse ==
    /\ pc = "idle"
    /\ pending # <<>>
    /\ Head(pending).op = "parse"
    /\ pc' = "parse"
    /\ fr' = [op |-> "parse", argv |-> Head(pending).argv, i |-> 1,
              state |-> "options", ec |-> NoError, consumed |-> {},
              termAt |-> 0, occ |-> <<>>,
              opts0 |-> m_options, operands0 |-> m_operands,
              before |-> Returned, clean |-> Clean]
    /\ pending' = Tail(pending)
    /\ UNCHANGED <<m_options, m_operands, m_ignore_unknown>>

\* one loop iteration on an operand token
ParseOperand ==
    /\ pc = "parse"
    /\ parse_continues(Cur)
    /\ IsOperandToken(Cur)
    /\ Store(parse_iter(Cur))

\* one loop iteration on the token "--" that ends the options
ParseTerminator ==
    /\ pc = "parse"
    /\ parse_continues(Cur)
    /\ IsTerminatorToken(Cur)
    /\ Store(parse_iter(Cur))

\* one loop iteration on a long option token
ParseLong ==
    /\ pc = "parse"
    /\ parse_continues(Cur)
    /\ IsLongToken(Cur)
    /\ Store(parse_iter(Cur))

\* one loop iteration on a token of short options
ParseShort ==
    /\ pc = "parse"
    /\ parse_continues(Cur)
    /\ IsShortToken(Cur)
    /\ Store(parse_iter(Cur))

\* the loop ends and parse returns
ParseReturn ==
    /\ pc = "parse"
    /\ ~parse_continues(Cur)
    /\ pc' = "idle"
    /\ UNCHANGED <<m_options, m_operands, m_ignore_unknown, fr, pending>>

\* the lexer state of the running parse_config_file call
CurC ==
    [opts |-> m_options, ign |-> m_ignore_unknown, buffer |-> fr.buffer,
     pos |-> fr.pos, state |-> fr.state, name |-> fr.name,
     value |-> fr.value, ec |-> fr.ec, eof |-> fr.eof,
     lines |-> fr.lines, occ |-> fr.occ]

\* write the lexer state R back to the config object and the frame
StoreC(R) ==
    /\ m_options' = R.opts
    /\ fr' = [fr EXCEPT !.pos = R.pos, !.state = R.state, !.name = R.name,
                        !.value = R.value, !.ec = R.ec, !.eof = R.eof,
                        !.lines = R.lines, !.occ = R.occ]
    /\ UNCHANGED <<m_operands, m_ignore_unknown, pc, pending>>

\* the caller enters parse_config_file(is, ec) with a clear ec
CallParseConfigFile ==
    /\ pc = "idle"
    /\ pending # <<>>
    /\ Head(pending).op = "parse_config_file"
    /\ pc' = "cfg"
    /\ fr' = [op |-> "parse_config_file", buffer |-> Head(pending).is,
              pos |-> 1, state |-> "NAME_START", name |-> <<>>,
              value |-> <<>>, ec |-> NoError, eof |-> FALSE,
              lines |-> <<>>, occ |-> <<>>,
              opts0 |-> m_options, operands0 |-> m_operands,
              before |-> Returned, clean |-> Clean]
    /\ pending' = Tail(pending)
    /\ UNCHANGED <<m_options, m_operands, m_ignore_unknown>>

\* one character read in state NAME_START
CfgNameStart ==
    /\ pc = "cfg"
    /\ cfg_continues(CurC)
    /\ fr.state = "NAME_START"
    /\ StoreC(cfg_iter(CurC))

\* one character read in state COMMENT
CfgComment ==
    /\ pc = "cfg"
    /\ cfg_continues(CurC)
    /\ fr.state = "COMMENT"
    /\ StoreC(cfg_iter(CurC))

\* one character read in state NAME
CfgName ==
    /\ pc = "cfg"
    /\ cfg_continues(CurC)
    /\ fr.state = "NAME"
    /\ StoreC(cfg_iter(CurC))

\* one character read in state ASSIGN
CfgAssign ==
    /\ pc = "cfg"
    /\ cfg_continues(CurC)
    /\ fr.state = "ASSIGN"
    /\ StoreC(cfg_iter(CurC))

\* one character read in state VALUE_START or VALUE
CfgValue ==
    /\ pc = "cfg"
    /\ cfg_continues(CurC)
    /\ fr.state \in {"VALUE_START", "VALUE"}
    /\ StoreC(cfg_iter(CurC))

\* the loop ends and parse_config_file returns
CfgReturn ==
    /\ pc = "cfg"
    /\ ~cfg_continues(CurC)
    /\ pc' = "idle"
    /\ UNCHANGED <<m_options, m_operands, m_ignore_unknown, fr, pending>>

\* the calls of a program that makes one parser call, after an optional
\* set_ignore_unknown(true)
SingleCalls(opts) ==
    {[op |-> "parse", argv |-> a] : a \in ArgvsFor(opts)}
        \cup {[op |-> "parse_config_file", is |-> b] : b \in StreamsFor(opts)}

SingleScripts(opts) ==
    {<<c>> : c \in SingleCalls(opts)}
        \cup {<<[op |-> "set_ignore_unknown", v |-> TRUE], c>> :
                c \in SingleCalls(opts)}

\* after config::instance() and init(usage, options...)
Init ==
    /\ m_options \in Registries
    /\ m_operands = <<>>
    /\ m_ignore_unknown = FALSE
    /\ pc = "idle"
    /\ fr = NoFrame
    /\ pending \in SingleScripts(m_options)

\* the calls of a program that makes up to MaxCalls parser calls on the
\* mixed registry, after an optional set_ignore_unknown(true)
SessionCalls ==
    {[op |-> "parse", argv |-> a] : a \in SessionArgvs}
        \cup {[op |-> "parse_config_file", is |-> b] : b \in SessionStreams}

SessionScripts ==
    SeqsUpTo(SessionCalls, MaxCalls)
        \cup {<<[op |-> "set_ignore_unknown", v |-> TRUE]>> \o cs :
                cs \in SeqsUpTo(SessionCalls, MaxCalls)}

\* after config::instance() and init(usage, options...), for a session of
\* several calls
InitSession ==
    /\ m_options = RegMixed
    /\ m_operands = <<>>
    /\ m_ignore_unknown = FALSE
    /\ pc = "idle"
    /\ fr = NoFrame
    /\ pending \in SessionScripts

Next ==
    \/ SetIgnoreUnknown
    \/ CallParse
    \/ ParseOperand
    \/ ParseTerminator
    \/ ParseLong
    \/ ParseShort
    \/ ParseReturn
    \/ CallParseConfigFile
    \/ CfgNameStart
    \/ CfgComment
    \/ CfgName
    \/ CfgAssign
    \/ CfgValue
    \/ CfgReturn

Spec == Init /\ [][Next]_vars

\* ------------------------------------------------------------------
\* The search for a configuration file, after the parser calls of a session

\* the lists of directories searched
SearchDirs == {<<>>, <<"d1", "d2">>}

\* the file systems tried: no file at all; the file "c" in the second
\* directory; the file "x" in both directories, with different contents;
\* the file "d" in the first directory
FileSystems ==
    {{},
     {[dir |-> "d2", name |-> <<"c">>,
       content |-> <<"n", "r", "=", "8", "\n">>]},
     {[dir |-> "d1", name |-> <<"x">>,
       content |-> <<"n", "r", "=", "8", "\n", "v", "b", "\n">>],
      [dir |-> "d2", name |-> <<"x">>,
       content |-> <<"n", "r", "=", "7", "\n">>]},
     {[dir |-> "d1", name |-> <<"d">>,
       content |-> <<"f", "l", "=", "y", "\n", "z", "z", "\n">>]}}

\* the names given as config_option
ConfigOptions ==
    {<<"c", "f">>, <<"s">>, <<"n", "r">>, <<"f", "l">>, <<"v", "b">>, <<"z", "z">>}

\* config::parse_config_file(config_option, config_file_name, search_dirs, ec),
\* entered with a clear ec
ParseConfigFileSearch ==
    /\ pc = "idle"
    /\ pending # <<>>
    /\ Head(pending).op = "parse_config_file_search"
    /\ pending' = Tail(pending)
    /\ \E config_option \in ConfigOptions, config_file_name \in {<<"c">>, <<"d">>},
          search_dirs \in SearchDirs, fs \in FileSystems :
          LET R == parse_config_file_search(m_options, m_ignore_unknown, config_option,
                                            config_file_name, search_dirs, fs)
          IN  /\ m_options' = R.opts
              /\ fr' = [op |-> "parse_config_file_search", ec |-> R.ec,
                        thrown |-> R.thrown, exception |-> R.exception,
                        config_option |-> config_option,
                        config_file_name |-> config_file_name,
                        search_dirs |-> search_dirs, fs |-> fs,
                        file_name |-> R.file_name,
                        parsed_config_file |-> R.parsed_config_file,
                        opts0 |-> m_options, operands0 |-> m_operands,
                        before |-> Returned, clean |-> Clean]
    /\ UNCHANGED <<m_operands, m_ignore_unknown, pc>>

\* the sessions before a search: those of SessionScripts, and the command
\* line that gives the multi-valued option "fl" a file name
SearchScripts ==
    SessionScripts \cup {<<[op |-> "parse", argv |-> <<<<"-", "f", "x">>>>]>>}

\* a session of parser calls on the mixed registry, then one search
InitSearch ==
    /\ m_options = RegMixed
    /\ m_operands = <<>>
    /\ m_ignore_unknown = FALSE
    /\ pc = "idle"
    /\ fr = NoFrame
    /\ pending \in {s \o <<[op |-> "parse_config_file_search"]>> : s \in SearchScripts}

NextSearch == Next \/ ParseConfigFileSearch

SpecSearch == InitSearch /\ [][NextSearch]_vars

\* ------------------------------------------------------------------
\* The queries, made when the parser calls of the session have returned.
\* They are const members: none changes the config object.

\* the names asked for: the long names of the mixed registry, a name
\* that is not registered, the short name of "vb" and the name "vb,v" as
\* it was given to make_option
QueryNames ==
    {<<"v", "b">>, <<"n", "r">>, <<"f", "l">>, <<"s">>, <<"c", "f">>,
     <<"z", "z">>, <<"v">>, <<"v", "b", ",", "v">>}

\* the types asked for
QueryTypes == {"int", "string", "vector<string>", "vector<int>"}

\* the frame of a query that returned
QueryFrame(op, ec) ==
    [op |-> op, ec |-> ec, before |-> Returned, clean |-> Clean]

\* config::get<T>(name, ec), ec being clear or holding an earlier error
Get ==
    /\ pc = "idle"
    /\ pending # <<>>
    /\ Head(pending).op = "query"
    /\ pending' = Tail(pending)
    /\ \E name \in QueryNames, T \in QueryTypes, ec \in {NoError, invalid_argument} :
          fr' = QueryFrame("get", get_ec(m_options, name, T, ec))
                   @@ [name |-> name, T |-> T, ec0 |-> ec,
                       value |-> get(m_options, name, T).value]
    /\ UNCHANGED <<m_options, m_operands, m_ignore_unknown, pc>>

\* config::get<T>(name)
GetThrowing ==
    /\ pc = "idle"
    /\ pending # <<>>
    /\ Head(pending).op = "query"
    /\ pending' = Tail(pending)
    /\ \E name \in QueryNames, T \in QueryTypes :
          LET r == get_throwing(m_options, name, T)
          IN  fr' = QueryFrame("get_throwing", r.ec)
                       @@ [name |-> name, T |-> T, thrown |-> r.thrown,
                           value |-> r.value]
    /\ UNCHANGED <<m_options, m_operands, m_ignore_unknown, pc>>

\* config::has
Has ==
    /\ pc = "idle"
    /\ pending # <<>>
    /\ Head(pending).op = "query"
    /\ pending' = Tail(pending)
    /\ \E name \in QueryNames :
          fr' = QueryFrame("has", NoError)
                   @@ [name |-> name, result |-> has(m_options, name)]
    /\ UNCHANGED <<m_options, m_operands, m_ignore_unknown, pc>>

\* config::count
Count ==
    /\ pc = "idle"
    /\ pending # <<>>
    /\ Head(pending).op = "query"
    /\ pending' = Tail(pending)
    /\ \E name \in QueryNames :
          fr' = QueryFrame("count", NoError)
                   @@ [name |-> name, result |-> count(m_options, name)]
    /\ UNCHANGED <<m_options, m_operands, m_ignore_unknown, pc>>

\* a session of parser calls on the mixed registry, then one query
InitQuery ==
    /\ m_options = RegMixed
    /\ m_operands = <<>>
    /\ m_ignore_unknown = FALSE
    /\ pc = "idle"
    /\ fr = NoFrame
    /\ pending \in {s \o <<[op |-> "query"]>> : s \in SessionScripts}

NextQuery == Next \/ Get \/ GetThrowing \/ Has \/ Count

\* a session of parser calls followed by a query
SpecQuery == InitQuery /\ [][NextQuery]_vars

SpecSession == InitSession /\ [][Next]_vars

\* ------------------------------------------------------------------
\* config::init(usage, options...), called again on the singleton

\* init replaces m_impl, which holds the options and the operands;
\* m_ignore_unknown is a member of config itself and is left as it is
CallInit ==
    /\ pc = "idle"
    /\ pending # <<>>
    /\ Head(pending).op = "init"
    /\ m_options' = Head(pending).options
    /\ m_operands' = <<>>
    /\ fr' = [op |-> "init", ec |-> NoError, options |-> Head(pending).options,
              before |-> Returned, clean |-> Clean]
    /\ pending' = Tail(pending)
    /\ UNCHANGED <<m_ignore_unknown, pc>>

\* what a program does to the singleton before it calls init again
EarlierCalls == SessionCalls \cup {[op |-> "set_ignore_unknown", v |-> TRUE]}

\* a program that uses the singleton, calls init and parses a command line
InitScripts ==
    {e \o <<[op |-> "init", options |-> reg], [op |-> "parse", argv |-> a]>> :
        e \in SeqsUpTo(EarlierCalls, 1), reg \in Registries, a \in SessionArgvs}

InitAgain ==
    /\ m_options = RegMixed
    /\ m_operands = <<>>
    /\ m_ignore_unknown = FALSE
    /\ pc = "idle"
    /\ fr = NoFrame
    /\ pending \in InitScripts

NextInit == Next \/ CallInit

SpecInit == InitAgain /\ [][NextInit]_vars

\* ------------------------------------------------------------------
\* word_wrapper (text.hpp): the line breaking of the help text

\* std::numeric_limits<size_t>::max(). A size_t is held here by the
\* representative nearest zero of its residue modulo 2^64, so the largest
\* size_t is -1 and a sum that wraps around is the plain sum
SIZE_MAX == 0 - 1

\* a < b between two size_t
size_t_less(a, b) ==
    IF a < 0 /\ b >= 0 THEN FALSE
    ELSE IF a >= 0 /\ b < 0 THEN TRUE
    ELSE a < b

\* std::string_view::npos, for offsets counted from 0
npos == 0 - 1

\* std::isspace in the "C" locale, for the characters met here
isspace(ch) == ch \in {" ", "\t", "\n", "\r"}

\* the line break classes, in the order of the enum
LineBreakClass ==
    <<"OP", "CL", "CP", "QU", "EX", "SY", "IS", "PR", "PO", "NU", "AL", "HY",
      "BA", "CM", "WJ", "MB", "SP">>

\* the index of a class in the enum, counted from 1
ClassIndex(cls) == CHOOSE k \in 1..Len(LineBreakClass) : LineBreakClass[k] = cls

\* kASCII_LineBreakTable, for the characters met here
kASCII_LineBreakTable(ch) ==
    CASE ch = "\t" -> "BA"
      [] ch = "\n" -> "MB"
      [] ch = "\r" -> "SP"
      [] ch = " " -> "SP"
      [] ch = "!" -> "EX"
      [] ch = "(" -> "OP"
      [] ch = ")" -> "CP"
      [] ch = "," -> "IS"
      [] ch = "-" -> "HY"
      [] ch = "/" -> "SY"
      [] ch \in {"0", "1", "7", "8"} -> "NU"
      [] OTHER -> "AL"

\* brkTable[before][after]
brkTable ==
    << <<"PBK", "PBK", "PBK", "PBK", "PBK", "PBK", "PBK", "PBK", "PBK", "PBK", "PBK", "PBK", "PBK", "CPB", "PBK">>,
       <<"DBK", "PBK", "PBK", "IBK", "PBK", "PBK", "PBK", "IBK", "IBK", "DBK", "DBK", "IBK", "IBK", "CIB", "PBK">>,
       <<"DBK", "PBK", "PBK", "IBK", "PBK", "PBK", "PBK", "IBK", "IBK", "IBK", "IBK", "IBK", "IBK", "CIB", "PBK">>,
       <<"PBK", "PBK", "PBK", "IBK", "PBK", "PBK", "PBK", "IBK", "IBK", "IBK", "IBK", "IBK", "IBK", "CIB", "PBK">>,
       <<"DBK", "PBK", "PBK", "IBK", "PBK", "PBK", "PBK", "DBK", "DBK", "DBK", "DBK", "IBK", "IBK", "CIB", "PBK">>,
       <<"DBK", "PBK", "PBK", "IBK", "PBK", "PBK", "PBK", "DBK", "DBK", "IBK", "DBK", "IBK", "IBK", "CIB", "PBK">>,
       <<"DBK", "PBK", "PBK", "IBK", "PBK", "PBK", "PBK", "DBK", "DBK", "IBK", "IBK", "IBK", "IBK", "CIB", "PBK">>,
       <<"IBK", "PBK", "PBK", "IBK", "PBK", "PBK", "PBK", "DBK", "DBK", "IBK", "IBK", "IBK", "IBK", "CIB", "PBK">>,
       <<"IBK", "PBK", "PBK", "IBK", "PBK", "PBK", "PBK", "DBK", "DBK", "IBK", "IBK", "IBK", "IBK", "CIB", "PBK">>,
       <<"DBK", "PBK", "PBK", "IBK", "PBK", "PBK", "PBK", "IBK", "IBK", "IBK", "IBK", "IBK", "IBK", "CIB", "PBK">>,
       <<"DBK", "PBK", "PBK", "IBK", "PBK", "PBK", "PBK", "DBK", "DBK", "IBK", "IBK", "IBK", "IBK", "CIB", "PBK">>,
       <<"DBK", "PBK", "PBK", "IBK", "PBK", "PBK", "PBK", "DBK", "DBK", "IBK", "DBK", "IBK", "IBK", "CIB", "PBK">>,
       <<"DBK", "PBK", "PBK", "IBK", "PBK", "PBK", "PBK", "DBK", "DBK", "DBK", "DBK", "IBK", "IBK", "CIB", "PBK">>,
       <<"DBK", "PBK", "PBK", "IBK", "PBK", "PBK", "PBK", "DBK", "DBK", "IBK", "IBK", "IBK", "IBK", "CIB", "PBK">>,
       <<"IBK", "PBK", "PBK", "IBK", "PBK", "PBK", "PBK", "IBK", "IBK", "IBK", "IBK", "IBK", "IBK", "CIB", "PBK">> >>

\* the while loop of next_line_break; text is the iterator before "++text",
\* as an offset into line counted from 0
RECURSIVE next_line_break_loop(_, _, _, _)
next_line_break_loop(line, text, cls, ncls) ==
    LET t == text + 1
    IN  IF t = Len(line) \/ cls = "MB" THEN t
        ELSE LET lcls == ncls
                 n == kASCII_LineBreakTable(line[t + 1])
             IN  IF n = "MB" THEN t + 1
                 ELSE IF n = "SP" THEN next_line_break_loop(line, t, cls, n)
                 ELSE LET brk == brkTable[ClassIndex(cls)][ClassIndex(n)]
                      IN  IF brk = "DBK" \/ (brk = "IBK" /\ lcls = "SP") THEN t
                          ELSE next_line_break_loop(line, t, n, n)

\* word_wrapper::next_line_break(text, end): the offset of the next place
\* where line may be broken, after offset text
next_line_break(line, text) ==
    IF text = Len(line) THEN text
    ELSE LET c0 == kASCII_LineBreakTable(line[text + 1])
             cls == IF c0 = "SP" THEN "WJ" ELSE c0
         IN  next_line_break_loop(line, text, cls, cls)

\* mutant of wrap_offsets: every offset is recorded twice
RECURSIVE wrap_offsets_repeats(_, _, _)
wrap_offsets_repeats(line, b, offsets) ==
    IF b = Len(line) THEN offsets
    ELSE LET e == next_line_break(line, b)
         IN  wrap_offsets_repeats(line, e, Append(Append(offsets, e), e))

\* the first loop of wrap_line: the offsets of the break opportunities
RECURSIVE wrap_offsets(_, _, _)
wrap_offsets(line, b, offsets) ==
    IF b = Len(line) THEN offsets
    ELSE LET e == next_line_break(line, b)
         IN  wrap_offsets(line, e, Append(offsets, e))

\* w without the white space that ends the segment starting at offset o
RECURSIVE strip_space(_, _, _)
strip_space(line, o, w) ==
    IF w > 0 /\ isspace(line[o + w]) THEN strip_space(line, o, w - 1) ELSE w

\* mutant of wrap_inner: a segment as wide as m_width is refused too
RECURSIVE wrap_inner_strict(_, _, _, _, _, _)
wrap_inner_strict(line, m_width, offsets, i, j, mb) ==
    LET n == Len(offsets) - 1
    IN  IF j > n THEN mb
        ELSE LET w0 == offsets[j + 1] - offsets[i + 1]
             IN  IF w0 >= m_width THEN mb
                 ELSE LET w == strip_space(line, offsets[i + 1], w0)
                          cost == IF j < n
                                  THEN mb.minima[i + 1] + (m_width - w) * (m_width - w)
                                  ELSE mb.minima[i + 1]
                          mb1 == IF size_t_less(cost, mb.minima[j + 1])
                                 THEN [minima |-> [mb.minima EXCEPT ![j + 1] = cost],
                                       breaks |-> [mb.breaks EXCEPT ![j + 1] = i]]
                                 ELSE mb
                      IN  wrap_inner_strict(line, m_width, offsets, i, j + 1, mb1)

\* mutant of wrap_inner: the last line is charged for its slack too
RECURSIVE wrap_inner_last_costed(_, _, _, _, _, _)
wrap_inner_last_costed(line, m_width, offsets, i, j, mb) ==
    LET n == Len(offsets) - 1
    IN  IF j > n THEN mb
        ELSE LET w0 == offsets[j + 1] - offsets[i + 1]
             IN  IF w0 > m_width THEN mb
                 ELSE LET w == strip_space(line, offsets[i + 1], w0)
                          cost == mb.minima[i + 1] + (m_width - w) * (m_width - w)
                          mb1 == IF size_t_less(cost, mb.minima[j + 1])
                                 THEN [minima |-> [mb.minima EXCEPT ![j + 1] = cost],
                                       breaks |-> [mb.breaks EXCEPT ![j + 1] = i]]
                                 ELSE mb
                      IN  wrap_inner_last_costed(line, m_width, offsets, i, j + 1, mb1)

\* the inner loop of wrap_line for one i: j runs from i + 1 up to count or
\* to the first segment wider than m_width. mb holds minima and breaks,
\* whose element k is kept at index k + 1
RECURSIVE wrap_inner(_, _, _, _, _, _)
wrap_inner(line, m_width, offsets, i, j, mb) ==
    LET n == Len(offsets) - 1
    IN  IF j > n THEN mb
        ELSE LET w0 == offsets[j + 1] - offsets[i + 1]
             IN  IF w0 > m_width THEN mb
                 ELSE LET w == strip_space(line, offsets[i + 1], w0)
                          cost == IF j < n
                                  THEN mb.minima[i + 1] + (m_width - w) * (m_width - w)
                                  ELSE mb.minima[i + 1]
                          mb1 == IF size_t_less(cost, mb.minima[j + 1])
                                 THEN [minima |-> [mb.minima EXCEPT ![j + 1] = cost],
                                       breaks |-> [mb.breaks EXCEPT ![j + 1] = i]]
                                 ELSE mb
                      IN  wrap_inner(line, m_width, offsets, i, j + 1, mb1)

\* the outer loop of wrap_line
RECURSIVE wrap_outer(_, _, _, _, _)
wrap_outer(line, m_width, offsets, i, mb) ==
    IF i >= Len(offsets) - 1 THEN mb
    ELSE wrap_outer(line, m_width, offsets, i + 1,
                    wrap_inner(line, m_width, offsets, i, i + 1, mb))

\* mutant of wrap_result: the result is not reversed
RECURSIVE wrap_result_unreversed(_, _, _)
wrap_result_unreversed(offsets, breaks, j) ==
    IF j = 0 THEN <<>>
    ELSE LET i == breaks[j + 1]
         IN  <<[pos |-> offsets[i + 1], len |-> offsets[j + 1] - offsets[i + 1]]>>
                \o wrap_result_unreversed(offsets, breaks, i)

\* the last loop of wrap_line, with the reverse: the segments from the
\* start of the line to break j, each as [pos, len] within line
RECURSIVE wrap_result(_, _, _)
wrap_result(offsets, breaks, j) ==
    IF j = 0 THEN <<>>
    ELSE LET i == breaks[j + 1]
         IN  Append(wrap_result(offsets, breaks, i),
                    [pos |-> offsets[i + 1], len |-> offsets[j + 1] - offsets[i + 1]])

\* word_wrapper::wrap_line(line): the lines of one paragraph, each a
\* string_view [pos, len] into line
wrap_line(line, m_width) ==
    LET offsets == wrap_offsets(line, 0, <<0>>)
        n == Len(offsets) - 1
        mb0 == [minima |-> [k \in 1..(n + 1) |-> IF k = 1 THEN 0 ELSE SIZE_MAX],
                breaks |-> [k \in 1..(n + 1) |-> 0]]
        mb == wrap_outer(line, m_width, offsets, 0, mb0)
    IN  wrap_result(offsets, mb.breaks, n)

\* text.find('\n', from), offsets counted from 0
RECURSIVE find_newline(_, _)
find_newline(text, from) ==
    IF from >= Len(text) THEN npos
    ELSE IF text[from + 1] = "\n" THEN from
    ELSE find_newline(text, from + 1)

\* text.substr(pos, n)
substr(text, pos, n) == SubSeq(text, pos + 1, pos + n)

\* the characters a string_view [pos, len] of text is seen as
View(text, v) == substr(text, v.pos, v.len)

\* the lines of L moved by off, as views into the whole text
Shifted(L, off) == [k \in 1..Len(L) |-> [pos |-> L[k].pos + off, len |-> L[k].len]]

\* mutant of wrapper_iter: an empty paragraph yields no line
wrapper_iter_skips_empty(W) ==
    LET stop == IF W.line_end = npos THEN Len(W.text) ELSE W.line_end
        line == substr(W.text, W.line_start, stop - W.line_start)
        lines == IF line = <<>> THEN <<>>
                 ELSE Shifted(wrap_line(line, W.m_width), W.line_start)
        W1 == [W EXCEPT !.result = W.result \o lines,
                        !.paragraphs = Append(W.paragraphs,
                            [pos |-> W.line_start, len |-> Len(line),
                             first |-> Len(W.result) + 1,
                             last |-> Len(W.result) + Len(lines)])]
    IN  IF W.line_end = npos
        THEN [W1 EXCEPT !.done = TRUE]
        ELSE [W1 EXCEPT !.line_start = W.line_end + 1,
                        !.line_end = find_newline(W.text, W.line_end + 1)]

\* one turn of the for (;;) of the constructor, on the state W of the
\* constructor
wrapper_iter(W) ==
    LET stop == IF W.line_end = npos THEN Len(W.text) ELSE W.line_end
        line == substr(W.text, W.line_start, stop - W.line_start)
        lines == IF line = <<>>
                 THEN <<[pos |-> W.line_start, len |-> 0]>>
                 ELSE Shifted(wrap_line(line, W.m_width), W.line_start)
        W1 == [W EXCEPT !.result = W.result \o lines,
                        !.paragraphs = Append(W.paragraphs,
                            [pos |-> W.line_start, len |-> Len(line),
                             first |-> Len(W.result) + 1,
                             last |-> Len(W.result) + Len(lines)])]
    IN  IF W.line_end = npos
        THEN [W1 EXCEPT !.done = TRUE]
        ELSE [W1 EXCEPT !.line_start = W.line_end + 1,
                        !.line_end = find_newline(W.text, W.line_end + 1)]

\* the state of the constructor before the first turn
wrapper_start(text, width) ==
    [op |-> "word_wrapper", text |-> text, m_width |-> width,
     line_start |-> 0, line_end |-> find_newline(text, 0),
     result |-> <<>>, paragraphs |-> <<>>, done |-> FALSE]

RECURSIVE wrapper_run(_)
wrapper_run(W) == IF W.done THEN W ELSE wrapper_run(wrapper_iter(W))

\* word_wrapper(text, width): the lines, each as the characters it holds
word_wrapper(text, width) ==
    LET W == wrapper_run(wrapper_start(text, width))
    IN  [k \in 1..Len(W.result) |-> View(text, W.result[k])]

\* the characters of the texts wrapped and the bounds on the texts
WrapChars == {"a", " ", "-", "\n"}
MaxText == 6
MaxWidth == 3

\* the constructor is entered
WordWrapper ==
    /\ pc = "idle"
    /\ fr.op = "none"
    /\ \E text \in SeqsUpTo(WrapChars, MaxText), width \in 0..MaxWidth :
          fr' = wrapper_start(text, width)
    /\ pc' = "wrap"
    /\ UNCHANGED <<m_options, m_operands, m_ignore_unknown, pending>>

\* one turn of its loop; the constructor returns after the last paragraph
WrapParagraph ==
    /\ pc = "wrap"
    /\ fr' = wrapper_iter(fr)
    /\ pc' = IF fr'.done THEN "idle" ELSE "wrap"
    /\ UNCHANGED <<m_options, m_operands, m_ignore_unknown, pending>>

\* a program that wraps one text
InitWrap ==
    /\ m_options = <<>>
    /\ m_operands = <<>>
    /\ m_ignore_unknown = FALSE
    /\ pc = "idle"
    /\ fr = NoFrame
    /\ pending = <<>>

NextWrap == WordWrapper \/ WrapParagraph

SpecWrap == InitWrap /\ [][NextWrap]_vars


\* ------------------------------------------------------------------
\* Properties

\* parse has returned
ParseReturned == pc = "idle" /\ fr.op = "parse"

\* parse_config_file has returned
CfgReturned == pc = "idle" /\ fr.op = "parse_config_file"

\* s starts with the character "-"
StartsWithDash(s) == IF s = <<>> THEN FALSE ELSE s[1] = "-"

\* C1: once parse has read the token "--" in state options, every step of
\* the loop appends the next token of argv, as it is, to operands() and
\* leaves every option as it was, up to the last token of argv; the step
\* that reads "--" appends nothing and changes no option.
C1_TerminatorStep ==
    (pc = "parse" /\ fr.termAt = 0 /\ fr'.termAt # 0)
        => /\ fr.argv[fr.i] = <<"-", "-">>
           /\ fr.state = "options"
           /\ fr'.termAt = fr.i
           /\ m_operands' = m_operands
           /\ m_options' = m_options

C1_AfterTerminatorStep ==
    (pc = "parse" /\ fr.termAt # 0)
        => /\ m_options' = m_options
           /\ fr'.termAt = fr.termAt
           /\ fr'.ec = NoError
           /\ IF fr.i < argc(Cur)
              THEN /\ pc' = "parse"
                   /\ fr'.i = fr.i + 1
                   /\ m_operands' = Append(m_operands, fr.argv[fr.i])
              ELSE /\ pc' = "idle"
                   /\ m_operands' = m_operands

\* C1: once parse has read "--" in the options state, the "--" is not
\* appended to the operands, every later token is appended to them as it
\* is and in argv order, and no option changes any more.
C1_OperandsAfterTerminator ==
    [][C1_TerminatorStep /\ C1_AfterTerminatorStep]_vars

\* C1 witness: parse returned after a "--" that was followed by a token
\* starting with "-", which is now the last operand
C1_Witness ==
    /\ ParseReturned
    /\ fr.termAt # 0
    /\ fr.termAt < Len(fr.argv)
    /\ StartsWithDash(fr.argv[Len(fr.argv)])
    /\ m_operands # <<>>
    /\ m_operands[Len(m_operands)] = fr.argv[Len(fr.argv)]
    /\ m_options = fr.opts0

\* the number of positions of s that hold ch
Occurrences(s, ch) == Cardinality({p \in 1..Len(s) : s[p] = ch})

\* t is "--name" for a registered flag, or "-abc" with a, b, c short names
\* of registered flags
IsLongFlagToken(opts, t) ==
    \E k \in 1..Len(opts) :
        opts[k].m_is_flag /\ t = <<"-", "-">> \o opts[k].m_name

IsFlagCluster(opts, t) ==
    IF Len(t) < 2 THEN FALSE
    ELSE IF t[1] # "-" THEN FALSE
    ELSE \A p \in 2..Len(t) :
            \E k \in 1..Len(opts) :
                opts[k].m_is_flag /\ opts[k].m_short_name = t[p]

\* how often the token t names the flag opt
FlagOccurrences(opts, opt, t) ==
    IF t = <<"-", "-">> \o opt.m_name THEN 1
    ELSE IF IsFlagCluster(opts, t) THEN Occurrences(Tail(t), opt.m_short_name)
    ELSE 0

RECURSIVE SumFlagOccurrences(_, _, _)
SumFlagOccurrences(opts, opt, argv) ==
    IF argv = <<>> THEN 0
    ELSE FlagOccurrences(opts, opt, Head(argv))
            + SumFlagOccurrences(opts, opt, Tail(argv))

\* C3: on a registry of flags only, after parse of an argv made of long
\* flag tokens and clusters of registered short flags, the count of every
\* flag has grown by the number of its occurrences, each long token and
\* each character of a cluster counted once, and no error is returned.
C3_FlagCount ==
    (/\ ParseReturned
     /\ FlagsOnly(m_options)
     /\ \A j \in 1..Len(fr.argv) :
            IsLongFlagToken(m_options, fr.argv[j])
                \/ IsFlagCluster(m_options, fr.argv[j]))
        => /\ fr.ec = NoError
           /\ \A k \in 1..Len(m_options) :
                count(m_options, m_options[k].m_name)
                    = fr.opts0[k].m_seen
                        + SumFlagOccurrences(m_options, m_options[k], fr.argv)

\* C3 witness: "-vvvv --vb" counted vb five times (TEST_CASE t_2)
C3_Witness ==
    /\ ParseReturned
    /\ fr.argv = << <<"-", "v", "v", "v", "v">>, <<"-", "-", "v", "b">> >>
    /\ count(m_options, <<"v", "b">>) = 5
    /\ FlagsOnly(m_options)

\* the operands parse is expected to add: the tokens that were not taken
\* as an option's argument and either follow the "--" that ended the
\* options or, before it, do not start with "-"
RECURSIVE ExpectedOperands(_, _, _, _)
ExpectedOperands(argv, consumed, termAt, j) ==
    IF j > Len(argv) THEN <<>>
    ELSE LET isOperand ==
                /\ j \notin consumed
                /\ IF termAt # 0 /\ j > termAt THEN TRUE
                   ELSE IF termAt = j THEN FALSE
                   ELSE ~StartsWithDash(argv[j])
         IN  (IF isOperand THEN <<argv[j]>> ELSE <<>>)
                \o ExpectedOperands(argv, consumed, termAt, j + 1)

\* C4: in state options a token that does not start with "-" is appended
\* to operands() and the state stays options, without a change to any
\* option; and after a parse without error operands() has grown by
\* exactly the tokens that do not start with "-" and were not taken as an
\* option's argument plus all tokens after "--", in argv order.
C4_OperandStep ==
    (/\ pc = "parse"
     /\ parse_continues(Cur)
     /\ fr.state = "options"
     /\ ~StartsWithDash(fr.argv[fr.i]))
        => /\ m_operands' = Append(m_operands, fr.argv[fr.i])
           /\ fr'.state = "options"
           /\ fr'.i = fr.i + 1
           /\ pc' = "parse"
           /\ m_options' = m_options
           /\ fr'.ec = NoError

C4_OperandsAtReturn ==
    (ParseReturned /\ fr.ec = NoError)
        => m_operands
              = fr.operands0 \o ExpectedOperands(fr.argv, fr.consumed, fr.termAt, 1)

\* C4: a token without a leading "-" read in the options state is
\* appended to the operands and the state stays options; after a parse
\* without error the operands are those at the start of the call followed
\* by these tokens and the tokens after "--", in argv order.
C4_InterleavedOperands ==
    [][C4_OperandStep]_vars /\ []C4_OperandsAtReturn

\* C4 witness: an operand, then an option that was still parsed as an
\* option, then an option argument that is no operand
C4_Witness ==
    /\ ParseReturned
    /\ fr.ec = NoError
    /\ Len(fr.argv) >= 3
    /\ fr.argv[1] = <<"x">>
    /\ fr.argv[2] = <<"-", "i">>
    /\ fr.consumed = {3}
    /\ m_operands = << <<"x">> >>
    /\ m_options[2].m_seen = 1


\* a is a prefix of b
IsPrefix(a, b) == Len(a) <= Len(b) /\ SubSeq(b, 1, Len(a)) = a

\* the values that the set_value calls recorded in occ gave to option k,
\* in call order
RECURSIVE ValuesOf(_, _, _)
ValuesOf(opts, occ, k) ==
    IF occ = <<>> THEN <<>>
    ELSE (IF Head(occ).opt = k
          THEN <<traits_set_value(opts[k].type, Head(occ).arg).value>>
          ELSE <<>>) \o ValuesOf(opts, Tail(occ), k)

\* every set_value call of parse took its argument from argv: either the
\* non-empty rest of the option's own token or the whole next token, and
\* the calls are in argv order
OccFromArgv ==
    /\ \A n \in 1..Len(fr.occ) :
          LET e == fr.occ[n]
              t == fr.argv[e.at]
          IN  /\ e.at \in 1..Len(fr.argv)
              /\ e.at \notin fr.consumed
              /\ e.arg # <<>>
              /\ IF e.at + 1 \in fr.consumed
                 THEN e.arg = fr.argv[e.at + 1]
                 ELSE \E p \in 3..Len(t) : e.arg = From(t, p)
    /\ \A n \in 1..(Len(fr.occ) - 1) : fr.occ[n].at < fr.occ[n + 1].at

\* C5: no step of a parser replaces or removes an element stored in a
\* multi-valued option; when parse returns, the stored sequence has grown
\* by the values of the option's occurrences in argv order, and after a
\* parse without error the count has grown by as much as the sequence
\* (so that on a fresh registry count(name) is its length).
C5_AppendStep ==
    \A k \in 1..Len(m_options) :
        m_options[k].m_multi
            => IsPrefix(m_options[k].m_values, m_options'[k].m_values)

C5_ValuesAtReturn ==
    ParseReturned
        => /\ OccFromArgv
           /\ \A k \in 1..Len(m_options) :
                m_options[k].m_multi
                    => /\ m_options[k].m_values
                            = fr.opts0[k].m_values \o ValuesOf(m_options, fr.occ, k)
                       /\ fr.ec = NoError
                            => /\ m_options[k].m_seen - fr.opts0[k].m_seen
                                    = Len(ValuesOf(m_options, fr.occ, k))
                               /\ (fr.opts0[k].m_seen = 0 /\ fr.opts0[k].m_values = <<>>)
                                    => count(m_options, m_options[k].m_name)
                                          = Len(m_options[k].m_values)

\* C5: every occurrence of a multi-valued option appends its value and
\* keeps the earlier elements; after a parse without error the stored
\* sequence ends with the occurrence values in argv order and the count
\* has grown by their number.
C5_MultiAccumulates == [][C5_AppendStep]_vars /\ []C5_ValuesAtReturn

\* C5 witness: "-fx -f y --fl=y" stored x, y, y in this order, count 3
\* (TEST_CASE t_11)
C5_Witness ==
    /\ ParseReturned
    /\ fr.ec = NoError
    /\ fr.argv = << <<"-", "f", "x">>, <<"-", "f">>, <<"y">>,
                    <<"-", "-", "f", "l", "=", "y">> >>
    /\ get(m_options, <<"f", "l">>, "vector<string>").value
            = << << <<"x">>, <<"y">>, <<"y">> >> >>
    /\ count(m_options, <<"f", "l">>) = 3

\* C6: after a parse without error, a single-valued option that occurred
\* k >= 1 times holds the value of its last occurrence, get<T> returns it,
\* and its count has grown by k.
C6_LastValueWins ==
    (ParseReturned /\ fr.ec = NoError)
        => /\ OccFromArgv
           /\ \A k \in 1..Len(m_options) :
                LET o == m_options[k]
                    vals == ValuesOf(m_options, fr.occ, k)
                IN  (~o.m_is_flag /\ ~o.m_multi /\ vals # <<>>)
                        => /\ get(m_options, o.m_name, o.type)
                                = [ec |-> NoError, value |-> <<vals[Len(vals)]>>]
                           /\ count(m_options, o.m_name)
                                = fr.opts0[k].m_seen + Len(vals)

\* C6 witness: "-i 7 -i 8" left 8 in nr, count 2
C6_Witness ==
    /\ ParseReturned
    /\ fr.ec = NoError
    /\ fr.argv = << <<"-", "i">>, <<"7">>, <<"-", "i">>, <<"8">> >>
    /\ get(m_options, <<"n", "r">>, "int").value = <<8>>
    /\ count(m_options, <<"n", "r">>) = 2


\* the value texts tried: every non-empty token, and the texts with "="
\* or with characters after a number
ValueTexts == (MixedTokens \ {<<>>}) \cup ExtraValueTexts

\* the call started on a registry as init left it
FreshCall == fr.opts0 \in Registries /\ fr.operands0 = <<>>

\* the returned parse left the config object and ec as the parser state R
SameOutcome(R) ==
    R.opts = m_options /\ R.operands = m_operands /\ R.ec = fr.ec

\* C2 as stated: for every non-empty V the four forms end in the same
\* state, without error, with seen_count 1 and no operand.
C2_FormsNoError ==
    (ParseReturned /\ FreshCall)
        => \A k \in 1..Len(m_options) : \A V \in ValueTexts :
              LET o == fr.opts0[k]
              IN  (/\ ~o.m_is_flag
                   /\ ~o.m_multi
                   /\ o.m_short_name # NUL
                   /\ fr.argv \in Forms(o, V))
                     => /\ fr.ec = NoError
                        /\ m_options[k].m_seen = 1
                        /\ m_operands = <<>>
                        /\ \A f \in Forms(o, V) :
                              SameOutcome(parse(fr.opts0, fr.operands0,
                                                m_ignore_unknown, f))

\* C2 amended: for every non-empty V the four forms end in the same
\* state, with seen_count 1 and no operand; that state has no error and
\* holds the conversion of V when V converts to the option's type, and
\* has the error of the conversion otherwise.
C2_FormsEquivalent ==
    (ParseReturned /\ FreshCall)
        => \A k \in 1..Len(m_options) : \A V \in ValueTexts :
              LET o == fr.opts0[k]
                  conv == traits_set_value(o.type, V)
              IN  (/\ ~o.m_is_flag
                   /\ ~o.m_multi
                   /\ o.m_short_name # NUL
                   /\ fr.argv \in Forms(o, V))
                     => /\ fr.ec = conv.ec
                        /\ m_options[k].m_value = <<conv.value>>
                        /\ m_options[k].m_seen = 1
                        /\ m_operands = <<>>
                        /\ \A j \in 1..Len(m_options) :
                              j # k => m_options[j] = fr.opts0[j]
                        /\ \A f \in Forms(o, V) :
                              SameOutcome(parse(fr.opts0, fr.operands0,
                                                m_ignore_unknown, f))

\* C2 witness: "--nr=7" returned with 7 in nr (TEST_CASE t_3)
C2_Witness ==
    /\ ParseReturned
    /\ FreshCall
    /\ fr.argv = << <<"-", "-", "n", "r", "=", "7">> >>
    /\ fr.ec = NoError
    /\ get(m_options, <<"n", "r">>, "int").value = <<7>>


\* the name in a token "--name" or "--name=value"
LongName(t) ==
    LET a == From(t, 3)
    IN  IF Find(a, "=") # 0 THEN SubSeq(a, 1, Find(a, "=") - 1) ELSE a

\* t is "--U" or "--U=V" with U unregistered, or a short-option token all
\* of whose characters are unregistered
IsUnknownOptionToken(opts, t) ==
    IF Len(t) < 2 THEN FALSE
    ELSE IF t[1] # "-" THEN FALSE
    ELSE IF t[2] = "-"
         THEN Len(t) >= 3 /\ get_option(opts, LongName(t)) = 0
         ELSE \A p \in 2..Len(t) : get_option_short(opts, t[p]) = 0

\* argv without its token j
Remove(argv, j) == SubSeq(argv, 1, j - 1) \o SubSeq(argv, j + 1, Len(argv))

\* C10 as stated: with ignore_unknown set, parse ends as it does on the
\* argv without the unknown option token, wherever the token stands.
C10_UnknownTokenAnywhere ==
    (ParseReturned /\ m_ignore_unknown)
        => \A j \in 1..Len(fr.argv) :
              IsUnknownOptionToken(fr.opts0, fr.argv[j])
                 => SameOutcome(parse(fr.opts0, fr.operands0, TRUE,
                                      Remove(fr.argv, j)))

\* C10 amended: with ignore_unknown set, parse ends as it does on the
\* argv without the unknown option token, for a token that is neither
\* taken as the argument of the option before it nor placed after the
\* "--" that ends the options.
C10_UnknownTokenIgnored ==
    (ParseReturned /\ m_ignore_unknown)
        => \A j \in 1..Len(fr.argv) :
              (/\ IsUnknownOptionToken(fr.opts0, fr.argv[j])
               /\ j \notin fr.consumed
               /\ ~(fr.termAt # 0 /\ j > fr.termAt))
                 => SameOutcome(parse(fr.opts0, fr.operands0, TRUE,
                                      Remove(fr.argv, j)))

\* C10 witness: "-i7 --zz=x" with ignore_unknown set returned without
\* error, nr bound and nothing else changed
C10_Witness ==
    /\ ParseReturned
    /\ m_ignore_unknown
    /\ fr.argv = << <<"-", "i", "7">>, <<"-", "-", "z", "z", "=", "x">> >>
    /\ fr.ec = NoError
    /\ fr.i = 3
    /\ m_operands = <<>>
    /\ m_options[2].m_value = <<7>>


\* the non-empty values that the assignment lines recorded in lines gave
\* to the option named name, in stream order
RECURSIVE AssignedValues(_, _)
AssignedValues(lines, name) ==
    IF lines = <<>> THEN <<>>
    ELSE (IF Head(lines).assign /\ Head(lines).name = name
             /\ Head(lines).value # <<>>
          THEN <<Head(lines).value>> ELSE <<>>)
            \o AssignedValues(Tail(lines), name)

\* the step reads the end-of-line of an assignment "name = value"
AtValueEoln ==
    /\ pc = "cfg"
    /\ cfg_continues(CurC)
    /\ fr.state \in {"VALUE_START", "VALUE"}
    /\ is_eoln(sbumpc(CurC))

\* the step reads the end-of-line of a line that holds only a name
AtNameEoln ==
    /\ pc = "cfg"
    /\ cfg_continues(CurC)
    /\ fr.state \in {"NAME", "ASSIGN"}
    /\ is_eoln(sbumpc(CurC))

\* C7: in parse_config_file, an assignment to a single-valued option that
\* was seen before changes no option and raises no error; so, for an
\* option not seen before the call, the value stored when the call
\* returns is the one of the first line of the stream that assigns it a
\* non-empty value, and its count is 1.
C7_LaterAssignmentStep ==
    (/\ AtValueEoln
     /\ get_option(m_options, fr.name) # 0)
        => LET o == m_options[get_option(m_options, fr.name)]
           IN  (~o.m_is_flag /\ ~o.m_multi /\ o.m_seen >= 1)
                  => /\ m_options' = m_options
                     /\ fr'.ec = NoError

C7_FirstAtReturn ==
    CfgReturned
        => \A k \in 1..Len(m_options) :
              LET o == m_options[k]
                  vals == AssignedValues(fr.lines, o.m_name)
              IN  (~o.m_is_flag /\ ~o.m_multi /\ fr.opts0[k].m_seen = 0)
                     => IF vals = <<>> THEN o = fr.opts0[k]
                        ELSE /\ o.m_value
                                  = <<traits_set_value(o.type, vals[1]).value>>
                             /\ o.m_seen = 1

\* C7: in parse_config_file an assignment to a single-valued option that
\* was already seen changes neither its value nor its count and sets no
\* error; at return an option not seen before the call holds the first
\* non-empty value the stream assigns it, with count 1.
C7_FirstAssignmentWins == [][C7_LaterAssignmentStep]_vars /\ []C7_FirstAtReturn

\* C7 witness: a stream that assigns nr the values 8 and then 7 returned
\* without error with nr = 8 and count 1
C7_Witness ==
    /\ CfgReturned
    /\ fr.ec = NoError
    /\ fr.before = <<>>
    /\ AssignedValues(fr.lines, <<"n", "r">>) = << <<"8">>, <<"7">> >>
    /\ get(m_options, <<"n", "r">>, "int").value = <<8>>
    /\ count(m_options, <<"n", "r">>) = 1

\* C8: a parse_config_file call leaves every single-valued option that
\* was seen before the call (bound by an earlier parse) as it was, value
\* and count, while a single-valued option not seen before receives the
\* first non-empty value the stream assigns it.
C8_CommandLineWins ==
    (fr.op = "parse_config_file")
        => \A k \in 1..Len(m_options) :
              LET o == m_options[k]
                  vals == AssignedValues(fr.lines, o.m_name)
              IN  (~o.m_is_flag /\ ~o.m_multi)
                     => /\ fr.opts0[k].m_seen >= 1 => o = fr.opts0[k]
                        /\ (fr.opts0[k].m_seen = 0 /\ vals # <<>>)
                              => o.m_value
                                    = <<traits_set_value(o.type, vals[1]).value>>

\* C8 witness: after parse of "--nr=7" a stream that assigns nr = 8 and
\* s = "a #" returned with nr still 7, count 1, and s bound from the file
C8_Witness ==
    /\ CfgReturned
    /\ fr.ec = NoError
    /\ fr.before = <<"parse">>
    /\ AssignedValues(fr.lines, <<"n", "r">>) = << <<"8">> >>
    /\ get(m_options, <<"n", "r">>, "int").value = <<7>>
    /\ count(m_options, <<"n", "r">>) = 1
    /\ get(m_options, <<"s">>, "string").value = << <<"a", " ", "#">> >>

\* the position of the first character of the short-option token t that
\* is not the short name of a registered flag, 0 when there is none
FirstNonFlag(opts, t) ==
    LET P == {p \in 2..Len(t) :
                \/ get_option_short(opts, t[p]) = 0
                \/ ~opts[get_option_short(opts, t[p])].m_is_flag}
    IN  IF P = {} THEN 0 ELSE CHOOSE p \in P : \A q \in P : p <= q

\* the loop of parse is at an option token: a long one with an
\* unregistered name, or a short one whose first character that is no
\* registered flag is unregistered
AtUnknownLong ==
    /\ pc = "parse"
    /\ parse_continues(Cur)
    /\ IsLongToken(Cur)
    /\ get_option(m_options, LongName(fr.argv[fr.i])) = 0

AtUnknownShort ==
    /\ pc = "parse"
    /\ parse_continues(Cur)
    /\ IsShortToken(Cur)
    /\ FirstNonFlag(m_options, fr.argv[fr.i]) # 0
    /\ get_option_short(m_options,
            fr.argv[fr.i][FirstNonFlag(m_options, fr.argv[fr.i])]) = 0

\* every character of the short-option token t is unregistered or a flag
OnlyFlagsAndUnknown(opts, t) ==
    \A p \in 2..Len(t) :
        \/ get_option_short(opts, t[p]) = 0
        \/ opts[get_option_short(opts, t[p])].m_is_flag

\* C9: without ignore_unknown, the step of parse on a long token with an
\* unregistered name or on a short token with an unregistered character,
\* and the step of parse_config_file on the end of a line with an
\* unregistered name, set unknown_option, and the parser returns it; with
\* ignore_unknown no step sets unknown_option, and these steps set no
\* error at all.
C9_UnknownStep ==
    /\ (AtUnknownLong \/ AtUnknownShort)
          => /\ ~m_ignore_unknown => fr'.ec = unknown_option
             /\ (m_ignore_unknown
                 /\ (IsLongToken(Cur)
                     \/ OnlyFlagsAndUnknown(m_options, fr.argv[fr.i])))
                   => fr'.ec = NoError
    /\ ((AtValueEoln \/ AtNameEoln) /\ get_option(m_options, fr.name) = 0)
          => fr'.ec = IF m_ignore_unknown THEN NoError ELSE unknown_option
    /\ (pc \in {"parse", "cfg"} /\ m_ignore_unknown)
          => fr'.ec # unknown_option
    /\ (pc \in {"parse", "cfg"} /\ fr.ec = unknown_option)
          => pc' = "idle" /\ fr' = fr

\* C9: an unregistered long name or short character in argv, and an
\* unregistered name on a complete line of a configuration stream, end
\* the call with unknown_option when ignore_unknown is false and set no
\* error when it is true.
C9_UnknownOption == [][C9_UnknownStep]_vars

\* C9 witness: parse_config_file returned unknown_option for the line
\* "zz=1", whose name is not registered
C9_Witness ==
    /\ CfgReturned
    /\ ~m_ignore_unknown
    /\ fr.ec = unknown_option
    /\ fr.lines = << [name |-> <<"z", "z">>, value |-> <<"1">>, assign |-> TRUE] >>

\* ------------------------------------------------------------------
\* Queries

\* the option of the config object with long name name, for a registered name
Registered(name) == \E k \in 1..Len(m_options) : m_options[k].m_name = name

OptionNamed(name) ==
    m_options[CHOOSE k \in 1..Len(m_options) : m_options[k].m_name = name]

\* the option holds a value: a single-valued option whose optional is
\* engaged, or a multi-valued option (which always holds its vector)
HoldsValue(o) == ~o.m_is_flag /\ (o.m_multi \/ o.m_value # <<>>)

\* the type of the value held by a non-flag option
TypeHeld(o) ==
    IF ~o.m_multi THEN o.type
    ELSE IF o.type = "int" THEN "vector<int>" ELSE "vector<string>"

\* get<T>(name) fails: the name is not registered, the option holds no
\* value, or it holds one of another type
QueryFails(name, T) ==
    \/ ~Registered(name)
    \/ /\ Registered(name)
       /\ (~HoldsValue(OptionNamed(name)) \/ TypeHeld(OptionNamed(name)) # T)

\* the ec overload sets the three codes in the three cases
C11_EcOverload ==
    (fr.op = "get")
        => /\ ~Registered(fr.name) => fr.ec = unknown_option
           /\ (/\ Registered(fr.name)
               /\ ~OptionNamed(fr.name).m_is_flag
               /\ ~OptionNamed(fr.name).m_multi
               /\ ~OptionNamed(fr.name).m_has_default
               /\ OptionNamed(fr.name).m_seen = 0)
                 => fr.ec = option_not_specified
           /\ (/\ Registered(fr.name)
               /\ HoldsValue(OptionNamed(fr.name))
               /\ TypeHeld(OptionNamed(fr.name)) # fr.T)
                 => fr.ec = wrong_type_cast
           /\ (fr.ec # fr.ec0) <=> QueryFails(fr.name, fr.T)

\* the throwing overload throws exactly when the ec overload, called
\* with a clear ec, sets an error, and carries that error
C11_ThrowingOverload ==
    (fr.op = "get_throwing")
        => /\ fr.thrown <=> QueryFails(fr.name, fr.T)
           /\ fr.thrown <=> get_ec(m_options, fr.name, fr.T, NoError) # NoError
           /\ fr.thrown => fr.ec = get_ec(m_options, fr.name, fr.T, NoError)

\* C11: get<T>(name, ec) sets wrong_type_cast when the option holds a
\* value of another type than T, option_not_specified when a registered
\* single-valued option without default was never bound, unknown_option
\* when the name is not registered; the three codes differ from each
\* other; and get<T>(name) throws exactly when the ec overload sets an
\* error.
C11_GetErrors ==
    /\ C11_EcOverload
    /\ C11_ThrowingOverload
    /\ {wrong_type_cast, option_not_specified, unknown_option} \subseteq config_error
    /\ Cardinality({wrong_type_cast, option_not_specified, unknown_option}) = 3

\* C11 witness: after "--nr=7", get<std::string>("nr", ec) returned
\* wrong_type_cast
C11_Witness ==
    /\ fr.op = "get"
    /\ fr.before = <<"parse">>
    /\ fr.name = <<"n", "r">>
    /\ fr.T = "string"
    /\ fr.ec0 = NoError
    /\ OptionNamed(fr.name).m_value = <<7>>
    /\ fr.ec = wrong_type_cast

\* C12: has(name) is true exactly when name is the name of a registered
\* option that was seen or was declared with a default value, and false
\* for every other name; count(name) is the option's seen count, and 0 for
\* a name that is not registered.
C12_HasCount ==
    /\ (fr.op = "has")
          => (fr.result
                <=> /\ Registered(fr.name)
                    /\ (OptionNamed(fr.name).m_seen > 0
                          \/ OptionNamed(fr.name).m_has_default))
    /\ (fr.op = "has" /\ ~Registered(fr.name)) => ~fr.result
    /\ (fr.op = "count")
          => fr.result
                = IF Registered(fr.name) THEN OptionNamed(fr.name).m_seen ELSE 0

\* C12 witness: has("cf") returned true for an option never seen, by its
\* default value
C12_Witness ==
    /\ fr.op = "has"
    /\ fr.name = <<"c", "f">>
    /\ OptionNamed(fr.name).m_seen = 0
    /\ OptionNamed(fr.name).m_has_default
    /\ fr.result

\* C13: after parser calls that all returned without error, for every
\* option that is not a flag, has(name) is true if and only if
\* get<declared type>(name, ec), called with a clear ec, returns a value
\* and sets no error.
C13_HasIffGet ==
    (/\ fr.op = "get"
     /\ fr.clean
     /\ fr.ec0 = NoError
     /\ Registered(fr.name)
     /\ ~OptionNamed(fr.name).m_is_flag
     /\ fr.T = TypeHeld(OptionNamed(fr.name)))
        => (has(m_options, fr.name) <=> (fr.ec = NoError /\ fr.value # <<>>))

\* ------------------------------------------------------------------
\* Errors of parse_config_file

\* the number of lines read that hold only the name name
RECURSIVE BareLines(_, _)
BareLines(lines, name) ==
    IF lines = <<>> THEN 0
    ELSE (IF ~Head(lines).assign /\ Head(lines).name = name THEN 1 ELSE 0)
            + BareLines(Tail(lines), name)

\* the step on the end of a line that holds only a registered name: a
\* flag is counted once more, whatever its count, and no error is set; a
\* value option stays as it is and missing_argument_for_option is set
C14_BareNameStep ==
    (AtNameEoln /\ Registered(fr.name))
        => LET k == get_option(m_options, fr.name)
           IN  IF m_options[k].m_is_flag
               THEN /\ m_options' = [m_options EXCEPT ![k].m_seen = @ + 1]
                    /\ fr'.ec = NoError
               ELSE /\ m_options' = m_options
                    /\ fr'.ec = missing_argument_for_option

\* once missing_argument_for_option is set the call returns it
C14_MissingReturned ==
    (pc = "cfg" /\ fr.ec = missing_argument_for_option)
        => pc' = "idle" /\ fr' = fr /\ m_options' = m_options

\* when the call returns without error every flag was counted once for
\* each line that holds only its name
C14_FlagLinesCounted ==
    (CfgReturned /\ fr.ec = NoError)
        => \A k \in 1..Len(m_options) :
              m_options[k].m_is_flag
                 => m_options[k].m_seen
                       = fr.opts0[k].m_seen + BareLines(fr.lines, m_options[k].m_name)

\* C14: in parse_config_file a line that holds only a registered name,
\* with optional spaces or tabs after it, counts a flag once more (every
\* such line, not only the first) and, for a value option, returns
\* missing_argument_for_option and leaves the option as it was.
C14_BareName ==
    [][C14_BareNameStep /\ C14_MissingReturned]_vars /\ []C14_FlagLinesCounted

\* C14 witness: a stream with two lines "vb" returned without error and
\* counted the flag twice
C14_Witness ==
    /\ CfgReturned
    /\ fr.ec = NoError
    /\ BareLines(fr.lines, <<"v", "b">>) = 2
    /\ m_options[get_option(m_options, <<"v", "b">>)].m_seen = 2

\* the step on the end of a line that assigns to a registered flag sets
\* option_does_not_accept_argument and changes no option
C15_FlagValueStep ==
    (/\ AtValueEoln
     /\ Registered(fr.name)
     /\ m_options[get_option(m_options, fr.name)].m_is_flag)
        => /\ fr'.ec = option_does_not_accept_argument
           /\ m_options' = m_options

\* once option_does_not_accept_argument is set the call returns it
C15_ErrorReturned ==
    (pc = "cfg" /\ fr.ec = option_does_not_accept_argument)
        => pc' = "idle" /\ fr' = fr /\ m_options' = m_options

\* C15: in parse_config_file a line "flag=value" for a registered flag
\* returns option_does_not_accept_argument and leaves the count of the
\* flag as it was.
C15_FlagWithValue == [][C15_FlagValueStep /\ C15_ErrorReturned]_vars

\* C15 witness: the stream "vb=1" returned option_does_not_accept_argument
\* with the flag not counted (TEST_CASE file_2)
C15_Witness ==
    /\ CfgReturned
    /\ fr.ec = option_does_not_accept_argument
    /\ fr.lines = <<[name |-> <<"v", "b">>, value |-> <<"1">>, assign |-> TRUE]>>
    /\ m_options[get_option(m_options, <<"v", "b">>)].m_seen
          = fr.opts0[get_option(m_options, <<"v", "b">>)].m_seen

\* the characters of a name, as the claim lists them
NameChars == Letters \cup Digits \cup {"_", "-"}

\* an end-of-line: line feed, carriage return or the end of the stream
EolnChars == {LF, CR, EOF}

\* the character the step of parse_config_file reads is one its state
\* does not accept
UnacceptedChar ==
    LET ch == sbumpc(CurC)
    IN  \/ /\ fr.state = "NAME_START"
           /\ ch \notin NameChars \cup {"#", SP, TAB} \cup EolnChars
        \/ /\ fr.state = "ASSIGN"
           /\ ch \notin {SP, TAB, "="} \cup EolnChars

\* a step of the loop sets invalid_config_file exactly when it reads a
\* character its state does not accept; a step in a comment or a value
\* never sets it
C16_InvalidStep ==
    (pc = "cfg" /\ cfg_continues(CurC))
        => /\ (fr'.ec = invalid_config_file) <=> UnacceptedChar
           /\ fr.state \in {"COMMENT", "VALUE_START", "VALUE"}
                 => fr'.ec # invalid_config_file

\* once invalid_config_file is set the call returns it
C16_InvalidReturned ==
    (pc = "cfg" /\ fr.ec = invalid_config_file)
        => pc' = "idle" /\ fr' = fr /\ m_options' = m_options

\* C16: parse_config_file returns invalid_config_file exactly when it
\* reads a character its state does not accept: at the start of a name
\* anything but a name character, "#", space, tab or end-of-line; after a
\* name anything but space, tab, "=" or end-of-line; never inside a
\* comment or a value.
C16_InvalidConfigFile == [][C16_InvalidStep /\ C16_InvalidReturned]_vars

\* C16 witness: the stream "nr !" returned invalid_config_file, read
\* after the name (TEST_CASE file_2, "aap !")
C16_Witness ==
    /\ CfgReturned
    /\ fr.ec = invalid_config_file
    /\ fr.state = "ASSIGN"
    /\ fr.name = <<"n", "r">>
    /\ fr.buffer[fr.pos - 1] = "!"

\* ------------------------------------------------------------------
\* Fail-fast

\* a parser is running and has set an error
ErrorSet == pc \in {"parse", "cfg"} /\ fr.ec # NoError

\* once an error is set the next step is the return of the call, with
\* this error, and changes neither an option nor the operands
C17_StopStep ==
    ErrorSet
        => /\ pc' = "idle"
           /\ fr' = fr
           /\ m_options' = m_options
           /\ m_operands' = m_operands

\* a parse that returned an error left the config object as the parse of
\* the tokens read so far leaves it: the tokens after them had no effect
C17_ParseIgnoresRest ==
    (ParseReturned /\ fr.ec # NoError)
        => SameOutcome(parse(fr.opts0, fr.operands0, m_ignore_unknown,
                             SubSeq(fr.argv, 1, fr.i - 1)))

\* a parse_config_file that returned an error left the config object as
\* the call on the characters read so far leaves it
C17_CfgIgnoresRest ==
    (CfgReturned /\ fr.ec # NoError)
        => LET R == parse_config_file(fr.opts0, m_ignore_unknown,
                                      SubSeq(fr.buffer, 1, fr.pos - 1))
           IN  R.opts = m_options /\ R.ec = fr.ec /\ m_operands = fr.operands0

\* C17: both parsers stop at the first token, or the first line, that
\* sets an error: nothing after it changes a seen count, a stored value or
\* the operands, and the error returned is that first error.
C17_FailFast ==
    [][C17_StopStep]_vars /\ []C17_ParseIgnoresRest /\ []C17_CfgIgnoresRest

\* C17 witness: parse returned unknown_option from the first of two
\* tokens and left the second, a registered option, unread
C17_Witness ==
    /\ ParseReturned
    /\ fr.ec = unknown_option
    /\ fr.i - 1 < Len(fr.argv)
    /\ fr.argv[Len(fr.argv)] = <<"-", "v">>
    /\ m_options = fr.opts0

\* ------------------------------------------------------------------
\* The argument of a value option

\* the text a long token carries after its "=", empty when it has none
InlineOfLong(t) ==
    LET a == From(t, 3)
    IN  IF Find(a, "=") # 0 THEN From(a, Find(a, "=") + 1) ELSE <<>>

\* the registered value option that the token read by the loop of parse
\* names without an inline value, 0 if it names none: "--name" or
\* "--name=", or a short token that ends, after registered flags only,
\* with the character of a value option
ValueOptionWithoutInline ==
    LET tok == fr.argv[fr.i]
    IN  IF IsLongToken(Cur)
        THEN LET k == get_option(m_options, LongName(tok))
             IN  IF k # 0 /\ InlineOfLong(tok) = <<>>
                 THEN (IF m_options[k].m_is_flag THEN 0 ELSE k)
                 ELSE 0
        ELSE IF IsShortToken(Cur)
        THEN LET p == FirstNonFlag(m_options, tok)
             IN  IF p # 0 /\ p = Len(tok) THEN get_option_short(m_options, tok[p])
                 ELSE 0
        ELSE 0

\* C18: parse sets missing_argument_for_option for a value option, long
\* or short, exactly when its token carries no inline value and no token
\* follows it in argv; a following token, whatever its text, is consumed
\* and stored as the value of the option.
C18_ArgumentStep ==
    (pc = "parse" /\ parse_continues(Cur) /\ ValueOptionWithoutInline # 0)
        => LET k == ValueOptionWithoutInline
               next == fr.i + 1
           IN  /\ (fr'.ec = missing_argument_for_option) <=> (fr.i = Len(fr.argv))
               /\ (fr.i < Len(fr.argv))
                     => /\ fr'.consumed = fr.consumed \cup {next}
                        /\ fr'.i = next + 1
                        /\ m_operands' = m_operands
                        /\ m_options'[k]
                              = set_value([m_options[k] EXCEPT !.m_seen = @ + 1],
                                          fr.argv[next])

C18_MissingArgument == [][C18_ArgumentStep]_vars

\* ------------------------------------------------------------------
\* The search for a configuration file

\* the search call has returned (or was left by an exception)
SearchReturned == pc = "idle" /\ fr.op = "parse_config_file_search"

\* the option that config_option named when the search was called
ConfigOption == fr.opts0[get_option(fr.opts0, fr.config_option)]

\* no directory searched holds a file of this name
NowhereFound(name) ==
    \A p \in 1..Len(fr.search_dirs) :
        ~\E f \in fr.fs : f.dir = fr.search_dirs[p] /\ f.name = name

\* the texts given to the option as values: the value of a single-valued
\* option, the values of a multi-valued one
ValuesGiven(o) == IF o.m_multi THEN {o.m_values[p] : p \in 1..Len(o.m_values)}
                  ELSE {o.m_value[p] : p \in 1..Len(o.m_value)}

\* C19: when config_option names an option that was given a value (a
\* text) on the command line parsed before the call and no directory
\* searched holds a file of that name, the search sets ec to config_file_not_found and leaves every
\* option, count and value, as it was.
C19_ConfigFileNotFound ==
    (/\ SearchReturned
     /\ fr.before = <<"parse">>
     /\ get_option(fr.opts0, fr.config_option) # 0
     /\ ~ConfigOption.m_is_flag
     /\ ConfigOption.type = "string"
     /\ ConfigOption.m_seen > 0
     /\ \A name \in ValuesGiven(ConfigOption) : NowhereFound(name))
        => /\ fr.ec = config_file_not_found
           /\ ~fr.thrown
           /\ m_options = fr.opts0
           /\ m_operands = fr.operands0

\* C20: when config_option names no registered option, or an option that
\* was not given before the call (declared with a default value or not),
\* and no directory searched holds a file named config_file_name, the
\* search leaves ec clear and every option as it was.
C20_NotGivenStaysClear ==
    (/\ SearchReturned
     /\ \/ get_option(fr.opts0, fr.config_option) = 0
        \/ ConfigOption.m_seen = 0
     /\ NowhereFound(fr.config_file_name))
        => /\ fr.ec = NoError
           /\ ~fr.thrown
           /\ m_options = fr.opts0
           /\ m_operands = fr.operands0

\* ------------------------------------------------------------------
\* Properties of word_wrapper

\* the constructor has returned
WrapReturned == pc = "idle" /\ fr.op = "word_wrapper"

\* the paragraph that line k of the result was cut from
ParagraphOf(k) ==
    fr.paragraphs[CHOOSE p \in 1..Len(fr.paragraphs) :
                      fr.paragraphs[p].first <= k /\ k <= fr.paragraphs[p].last]

\* the distance from the start of line k to the next place where its
\* paragraph may be broken
NextBreakDistance(k) ==
    LET P == ParagraphOf(k)
        o == fr.result[k].pos - P.pos
    IN  next_line_break(View(fr.text, P), o) - o

\* C21: every line emitted is at most width characters long, unless the
\* distance from its start to the next break opportunity is already more
\* than width.
C21_LineFits ==
    fr.op = "word_wrapper"
        => \A k \in 1..Len(fr.result) :
              \/ fr.result[k].len <= fr.m_width
              \/ NextBreakDistance(k) > fr.m_width

\* the lines of paragraph P, each as the characters it holds, one after
\* the other
RECURSIVE ConcatLines(_, _)
ConcatLines(first, last) ==
    IF first > last THEN <<>>
    ELSE View(fr.text, fr.result[first]) \o ConcatLines(first + 1, last)

\* C22: the lines that wrap_line cut from a paragraph are not empty, the
\* first starts where the paragraph starts, each next one starts where the
\* one before it ends, the last ends where the paragraph ends, and their
\* characters put one after the other are the paragraph.
C22_LinesPartitionParagraph ==
    fr.op = "word_wrapper"
        => \A p \in 1..Len(fr.paragraphs) :
              LET P == fr.paragraphs[p]
              IN  P.len > 0
                    => /\ P.first <= P.last
                       /\ fr.result[P.first].pos = P.pos
                       /\ \A k \in P.first..P.last : fr.result[k].len > 0
                       /\ \A k \in P.first..(P.last - 1) :
                             fr.result[k + 1].pos = fr.result[k].pos + fr.result[k].len
                       /\ fr.result[P.last].pos + fr.result[P.last].len = P.pos + P.len
                       /\ ConcatLines(P.first, P.last) = View(fr.text, P)

\* C22 witness: "aa-a a" at width 2 was cut into "aa-", "a " and "a": a
\* line longer than the width, a line that keeps its trailing space, a
\* last line
C22_Witness ==
    /\ WrapReturned
    /\ fr.text = <<"a", "a", "-", "a", " ", "a">>
    /\ fr.m_width = 2
    /\ fr.result = <<[pos |-> 0, len |-> 3], [pos |-> 3, len |-> 2], [pos |-> 5, len |-> 1]>>

\* the text has no line feed
NoNewline(text) == \A k \in 1..Len(text) : text[k] # "\n"

\* C23: a text without line feed of 1 to width characters is returned as
\* one line, the text itself, so every line emitted that is not longer
\* than the width is wrapped again into itself.
C23_ShortLineIdempotent ==
    WrapReturned
        => /\ (NoNewline(fr.text) /\ Len(fr.text) >= 1 /\ Len(fr.text) <= fr.m_width)
                => fr.result = <<[pos |-> 0, len |-> Len(fr.text)]>>
           /\ \A k \in 1..Len(fr.result) :
                 LET l == View(fr.text, fr.result[k])
                 IN  (Len(l) >= 1 /\ Len(l) <= fr.m_width)
                        => word_wrapper(l, fr.m_width) = <<l>>

\* C23 witness: "-a" at width 2, a text as long as the width that could be
\* broken after the hyphen, came back as one line; and "a a-a" at width 3
\* was cut into "a " and "a-a", which are wrapped again
C23_Witness ==
    /\ WrapReturned
    /\ fr.m_width \in {2, 3}
    /\ \/ /\ fr.text = <<"-", "a">>
          /\ fr.m_width = 2
          /\ fr.result = <<[pos |-> 0, len |-> 2]>>
       \/ /\ fr.text = <<"a", " ", "a", "-", "a">>
          /\ fr.m_width = 3
          /\ Len(fr.result) = 2

\* the number of line feeds in the text
RECURSIVE Newlines(_)
Newlines(text) ==
    IF text = <<>> THEN 0
    ELSE (IF Head(text) = "\n" THEN 1 ELSE 0) + Newlines(Tail(text))

\* C24: the paragraphs are the pieces of the text between line feeds, in
\* order; an empty paragraph yields one empty line, any other paragraph one
\* line or more, the lines of a paragraph follow those of the paragraph
\* before it, and there is at least one line more than there are line
\* feeds.
C24_ParagraphLines ==
    WrapReturned
        => LET np == Len(fr.paragraphs)
           IN  /\ np = 1 + Newlines(fr.text)
               /\ fr.paragraphs[1].pos = 0
               /\ fr.paragraphs[np].pos + fr.paragraphs[np].len = Len(fr.text)
               /\ \A p \in 1..(np - 1) :
                     /\ fr.text[fr.paragraphs[p].pos + fr.paragraphs[p].len + 1] = "\n"
                     /\ fr.paragraphs[p + 1].pos
                            = fr.paragraphs[p].pos + fr.paragraphs[p].len + 1
                     /\ fr.paragraphs[p + 1].first = fr.paragraphs[p].last + 1
               /\ \A p \in 1..np : NoNewline(View(fr.text, fr.paragraphs[p]))
               /\ fr.paragraphs[1].first = 1
               /\ fr.paragraphs[np].last = Len(fr.result)
               /\ \A p \in 1..np :
                     LET P == fr.paragraphs[p]
                     IN  IF P.len = 0
                         THEN P.last = P.first /\ fr.result[P.first].len = 0
                         ELSE P.last >= P.first
               /\ Len(fr.result) >= 1 + Newlines(fr.text)

\* C24 witness: the text "aa aa\n\na\n" at width 3 gave the lines "aa ",
\* "aa", "", "a", "" (an empty paragraph inside and one after the last
\* line feed); and the empty text gave one empty line
C24_Witness ==
    /\ WrapReturned
    /\ \/ /\ fr.text = <<"a", "a", " ", "a", "\n", "\n">>
          /\ fr.m_width = 3
          /\ Len(fr.result) = 4
          /\ fr.result[3].len = 0
          /\ fr.result[4].len = 0
       \/ /\ fr.text = <<>>
          /\ fr.result = <<[pos |-> 0, len |-> 0]>>

\* ------------------------------------------------------------------
\* Properties of init

\* C25: a parse called right after init returns what it returns on a
\* config object that was never used, initialised with the same options:
\* the same error code, the same options (counts and values) and the same
\* operands, whatever was done to the singleton before the init.
C25_InitStartsFresh ==
    [][(fr.op = "init" /\ fr'.op = "parse")
          => LET here == parse(m_options, m_operands, m_ignore_unknown, fr'.argv)
                 fresh == parse(fr.options, <<>>, FALSE, fr'.argv)
             IN  /\ here.ec = fresh.ec
                 /\ here.opts = fresh.opts
                 /\ here.operands = fresh.operands]_vars

\* ------------------------------------------------------------------
\* Properties of the tokens of parse, continued

\* the registered flag that the long token read by the loop of parse
\* names, 0 if it names none
LongFlagAtToken ==
    IF pc = "parse" /\ parse_continues(Cur) /\ IsLongToken(Cur)
    THEN LET k == get_option(m_options, LongName(fr.argv[fr.i]))
         IN  IF k = 0 THEN 0 ELSE IF m_options[k].m_is_flag THEN k ELSE 0
    ELSE 0

\* C26: a long token that names a registered flag and holds a "=" makes
\* parse return option_does_not_accept_argument and leaves the count of
\* the flag as it was; without "=" the count grows by one and no error is
\* set.
C26_FlagInlineStep ==
    LongFlagAtToken # 0
        => LET k == LongFlagAtToken
           IN  IF Find(From(fr.argv[fr.i], 3), "=") # 0
               THEN /\ fr'.ec = option_does_not_accept_argument
                    /\ m_options'[k].m_seen = m_options[k].m_seen
               ELSE /\ fr'.ec = NoError
                    /\ m_options'[k].m_seen = m_options[k].m_seen + 1

C26_FlagInlineValue == [][C26_FlagInlineStep]_vars

\* the loop of parse is at a short-option token
AtShortToken == pc = "parse" /\ parse_continues(Cur) /\ IsShortToken(Cur)

\* the position in the short-option token t at which the characters stop
\* being resolved: the first character that names a registered value
\* option or, without ignore_unknown, no option at all; 0 if there is none
StopOfShort(opts, ign, t) ==
    LET P == {p \in 2..Len(t) :
                IF get_option_short(opts, t[p]) = 0 THEN ~ign
                ELSE ~opts[get_option_short(opts, t[p])].m_is_flag}
    IN  IF P = {} THEN 0 ELSE CHOOSE p \in P : \A q \in P : p <= q

\* how many characters of t, before position stop, name option k
ShortOccurrences(opts, t, stop, k) ==
    Cardinality({p \in 2..(IF stop = 0 THEN Len(t) ELSE stop - 1) :
                    get_option_short(opts, t[p]) = k})

\* C27: the characters of a short-option token are resolved from left to
\* right. Every character that names a registered flag adds one to the
\* count of that flag, up to the first character that names a registered
\* value option; the characters after that one, if there are any, are
\* given to it as its value, else the next token is; and no option named
\* by a later character of the token changes.
C27_ShortTokenStep ==
    AtShortToken
        => LET tok == fr.argv[fr.i]
               stop == StopOfShort(m_options, m_ignore_unknown, tok)
               v == IF stop = 0 THEN 0 ELSE get_option_short(m_options, tok[stop])
               rest == IF stop = 0 THEN <<>> ELSE SubSeq(tok, stop + 1, Len(tok))
           IN  /\ \A k \in 1..Len(m_options) :
                     k # v => /\ m_options'[k].m_seen = m_options[k].m_seen
                                   + ShortOccurrences(m_options, tok, stop, k)
                              /\ m_options'[k].m_value = m_options[k].m_value
                              /\ m_options'[k].m_values = m_options[k].m_values
               /\ v # 0 => m_options'[v].m_seen = m_options[v].m_seen + 1
               /\ (v # 0 /\ rest # <<>>)
                     => /\ fr'.occ = Append(fr.occ, [opt |-> v, at |-> fr.i, arg |-> rest])
                        /\ fr'.consumed = fr.consumed
               /\ (v # 0 /\ rest = <<>> /\ fr.i < Len(fr.argv))
                     => /\ fr'.occ = Append(fr.occ, [opt |-> v, at |-> fr.i,
                                                     arg |-> fr.argv[fr.i + 1]])
                        /\ fr'.consumed = fr.consumed \cup {fr.i + 1}
               /\ v = 0 => fr'.occ = fr.occ /\ fr'.consumed = fr.consumed

C27_ShortToken == [][C27_ShortTokenStep]_vars

\* C28: the step of parse on a token "-" read in state options changes
\* no option and no operand, sets no error, takes no other token as an
\* argument and leaves the state options, so that the next token is read
\* as an option again.
C28_LoneDashStep ==
    (pc = "parse" /\ parse_continues(Cur) /\ fr.state = "options"
        /\ fr.argv[fr.i] = <<"-">>)
        => /\ m_options' = m_options
           /\ m_operands' = m_operands
           /\ fr'.ec = NoError
           /\ fr'.state = "options"
           /\ fr'.i = fr.i + 1
           /\ fr'.consumed = fr.consumed
           /\ fr'.occ = fr.occ

C28_LoneDash == [][C28_LoneDashStep]_vars

\* C28 witness: parse of "- -v" returned without error, with no operand
\* and with the flag "vb" counted once
C28_Witness ==
    /\ ParseReturned
    /\ fr.argv = << <<"-">>, <<"-", "v">> >>
    /\ fr.ec = NoError
    /\ m_operands = fr.operands0
    /\ count(m_options, <<"v", "b">>) = 1

\* ------------------------------------------------------------------
\* Properties of a session of calls

\* C29: no step of a parse or parse_config_file call, failing or not,
\* adds or removes an option or changes the name, the short name or the
\* kind of one; no count decreases; operands() and the values stored by a
\* multi-valued option only grow at their end.
C29_SessionStep ==
    /\ Len(m_options') = Len(m_options)
    /\ \A k \in 1..Len(m_options) :
          /\ m_options'[k].m_name = m_options[k].m_name
          /\ m_options'[k].m_short_name = m_options[k].m_short_name
          /\ m_options'[k].m_is_flag = m_options[k].m_is_flag
          /\ m_options'[k].m_multi = m_options[k].m_multi
          /\ m_options'[k].type = m_options[k].type
          /\ m_options'[k].m_seen >= m_options[k].m_seen
          /\ IsPrefix(m_options[k].m_values, m_options'[k].m_values)
    /\ IsPrefix(m_operands, m_operands')

C29_SessionMonotone == [][C29_SessionStep]_vars

\* C29 witness: two calls have returned, one of them with an error, and
\* the config object holds an operand and a counted option
C29_Witness ==
    /\ pc = "idle"
    /\ Len(Returned) = 2
    /\ ~Clean
    /\ m_operands # <<>>
    /\ \E k \in 1..Len(m_options) : m_options[k].m_seen >= 1

\* ------------------------------------------------------------------
\* Properties of flags

\* the types asked of a flag
FlagQueryTypes == QueryTypes \cup {"bool", "void"}

\* C30: no step of parse or parse_config_file calls set_value on a flag
\* (every call recorded names a value option), and in every state a flag
\* holds no value: get<T> of a flag sets option_not_specified whatever T
\* is, whether the flag was seen or not.
C30_NoSetValueStep ==
    (pc \in {"parse", "cfg"} /\ fr'.op = fr.op /\ fr'.occ # fr.occ)
        => \A p \in (Len(fr.occ) + 1)..Len(fr'.occ) :
              ~m_options[fr'.occ[p].opt].m_is_flag

C30_FlagHoldsNothing ==
    \A k \in 1..Len(m_options) :
        m_options[k].m_is_flag
            => /\ m_options[k].m_value = <<>>
               /\ m_options[k].m_values = <<>>
               /\ get_value(m_options[k]) = <<>>
               /\ \A T \in FlagQueryTypes :
                     get(m_options, m_options[k].m_name, T).ec = option_not_specified

C30_FlagNeverValued == [][C30_NoSetValueStep]_vars /\ []C30_FlagHoldsNothing

\* C30 witness: parse of "-vi7" has returned: the flag "vb" was counted,
\* set_value was called once, on "nr", and get<string>("vb") sets
\* option_not_specified
C30_Witness ==
    /\ ParseReturned
    /\ fr.argv = << <<"-", "v", "i", "7">> >>
    /\ count(m_options, <<"v", "b">>) = 1
    /\ Len(fr.occ) = 1
    /\ get(m_options, <<"v", "b">>, "string").ec = option_not_specified

\* ------------------------------------------------------------------
\* Properties of the lines of a configuration file

\* C31: the step of parse_config_file on the end of a line "name =" whose
\* value is empty (nothing, or only spaces and tabs, after "="), for a
\* registered value option, sets no error, calls no set_value and changes
\* no option.
C31_EmptyValueStep ==
    (/\ AtValueEoln
     /\ fr.value = <<>>
     /\ Registered(fr.name)
     /\ ~m_options[get_option(m_options, fr.name)].m_is_flag)
        => /\ fr.state = "VALUE_START"
           /\ fr'.ec = NoError
           /\ m_options' = m_options
           /\ fr'.occ = fr.occ
           /\ fr'.state = "NAME_START"

C31_EmptyValueSkipped == [][C31_EmptyValueStep]_vars

\* C31 witness: the stream "nr= \t\n" was read without error, the line was
\* closed as an assignment of the empty value and "nr" is as it was, unseen
C31_Witness ==
    /\ CfgReturned
    /\ fr.ec = NoError
    /\ fr.buffer = <<"n", "r", "=", " ", "\t", "\n">>
    /\ fr.lines = << [name |-> <<"n", "r">>, value |-> <<>>, assign |-> TRUE] >>
    /\ m_options = fr.opts0
    /\ count(m_options, <<"n", "r">>) = 0

\* s without the spaces and tabs it starts with
RECURSIVE SkipBlanks(_)
SkipBlanks(s) ==
    IF s = <<>> THEN <<>>
    ELSE IF Head(s) \in {SP, TAB} THEN SkipBlanks(Tail(s)) ELSE s

\* the number of name characters s starts with
RECURSIVE NameRun(_)
NameRun(s) ==
    IF s = <<>> THEN 0
    ELSE IF is_name_char(Head(s)) THEN 1 + NameRun(Tail(s)) ELSE 0

\* the pieces of the stream between ends of line; a piece that the end
\* of the stream closes is the last one
RECURSIVE SplitLines(_, _)
SplitLines(buffer, piece) ==
    IF buffer = <<>> THEN (IF piece = <<>> THEN <<>> ELSE <<piece>>)
    ELSE IF Head(buffer) \in {LF, CR}
         THEN <<piece>> \o SplitLines(Tail(buffer), <<>>)
         ELSE SplitLines(Tail(buffer), Append(piece, Head(buffer)))

\* what a well-formed line says: nothing (blank or comment), a name, or a
\* name and the value assigned to it, which is all that follows the blanks
\* after "="
LineSays(l) ==
    LET a == SkipBlanks(l)
        n == NameRun(a)
        b == SkipBlanks(SubSeq(a, n + 1, Len(a)))
    IN  IF a = <<>> THEN <<>>
        ELSE IF a[1] = "#" THEN <<>>
        ELSE IF b = <<>>
             THEN <<[name |-> SubSeq(a, 1, n), value |-> <<>>, assign |-> FALSE]>>
             ELSE <<[name |-> SubSeq(a, 1, n), value |-> SkipBlanks(Tail(b)),
                     assign |-> TRUE]>>

RECURSIVE LinesSay(_)
LinesSay(ls) == IF ls = <<>> THEN <<>> ELSE LineSays(Head(ls)) \o LinesSay(Tail(ls))

\* the character the next step of parse_config_file reads
NextCh == sbumpc(CurC)

\* the step reads a space or a tab
AtBlank == pc = "cfg" /\ cfg_continues(CurC) /\ NextCh \in {SP, TAB}

\* C32: spaces and tabs before a name, between the name and "=" and
\* after "=" are skipped; from the first other character after "=" every
\* character up to the end of the line, blank and "#" included, is added
\* to the value, and that value is what set_value receives; a "#" read
\* where a name may start opens a comment, which changes no option up to
\* the end of its line.
C32_LexStep ==
    /\ (AtBlank /\ fr.state \in {"NAME_START", "ASSIGN", "VALUE_START"})
          => /\ fr'.state = fr.state
             /\ fr'.name = fr.name
             /\ fr'.value = fr.value
             /\ fr'.ec = NoError
             /\ m_options' = m_options
    /\ (AtBlank /\ fr.state = "NAME")
          => /\ fr'.state = "ASSIGN"
             /\ fr'.name = fr.name
             /\ fr'.ec = NoError
             /\ m_options' = m_options
    /\ (pc = "cfg" /\ cfg_continues(CurC) /\ ~is_eoln(NextCh))
          => /\ (fr.state = "VALUE_START" /\ NextCh \notin {SP, TAB})
                   => fr'.state = "VALUE" /\ fr'.value = <<NextCh>>
             /\ fr.state = "VALUE"
                   => fr'.state = "VALUE" /\ fr'.value = Append(fr.value, NextCh)
    /\ (AtValueEoln /\ Registered(fr.name) /\ fr.value # <<>>)
          => LET k == get_option(m_options, fr.name)
             IN  (~m_options[k].m_is_flag
                  /\ (m_options[k].m_seen = 0 \/ m_options[k].m_multi))
                    => fr'.occ = Append(fr.occ, [opt |-> k, arg |-> fr.value])
    /\ (pc = "cfg" /\ cfg_continues(CurC) /\ fr.state = "NAME_START" /\ NextCh = "#")
          => fr'.state = "COMMENT" /\ m_options' = m_options /\ fr'.ec = NoError
    /\ (pc = "cfg" /\ cfg_continues(CurC) /\ fr.state = "COMMENT")
          => /\ fr'.state = IF is_eoln(NextCh) THEN "NAME_START" ELSE "COMMENT"
             /\ m_options' = m_options
             /\ fr'.ec = NoError
             /\ fr'.lines = fr.lines

\* a stream read without error was read as its lines say
C32_LinesAtReturn ==
    (CfgReturned /\ fr.ec = NoError)
        => fr.lines = LinesSay(SplitLines(fr.buffer, <<>>))

C32_BlanksAndValues == [][C32_LexStep]_vars /\ []C32_LinesAtReturn

\* C32 witness: the stream " s\t=\ta # \n" followed by the comment
\* "# s=x\n" gave "s" the value "a # " and nothing else
C32_Witness ==
    /\ CfgReturned
    /\ fr.ec = NoError
    /\ fr.buffer = <<" ", "s", "\t", "=", "\t", "a", " ", "#", " ", "\n",
                     "#", " ", "s", "=", "x", "\n">>
    /\ fr.lines = << [name |-> <<"s">>, value |-> <<"a", " ", "#", " ">>,
                      assign |-> TRUE] >>
    /\ get(m_options, <<"s">>, "string").value = << <<"a", " ", "#", " ">> >>
    /\ count(m_options, <<"s">>) = 1

\* what is left for parse_config_file to do: the characters not yet read,
\* counted twice, and one more while the name is being read (the step
\* that ends a name puts its character back)
CfgMeasure(f) ==
    2 * (Len(f.buffer) + 1 - f.pos) + (IF f.state = "NAME" THEN 1 ELSE 0)

\* C33: every step of parse_config_file either ends the loop (an error is
\* set or the end of the stream was read) or brings the end of the stream
\* nearer, so the call returns on every finite stream; and the call
\* returns what it returns on the same stream with a line feed added at
\* its end: the same error code, the same options, the same lines.
C33_ProgressStep ==
    (pc = "cfg" /\ cfg_continues(CurC))
        => \/ fr'.ec # NoError
           \/ fr'.eof
           \/ (CfgMeasure(fr') < CfgMeasure(fr) /\ fr'.pos <= Len(fr.buffer) + 1)

C33_EndOfStreamStep ==
    (pc = "cfg" /\ ~cfg_continues(CurC)) => pc' = "idle"

C33_LastLineAsTerminated ==
    CfgReturned
        => LET R == parse_config_file(fr.opts0, m_ignore_unknown, Append(fr.buffer, LF))
           IN  /\ R.opts = m_options
               /\ R.ec = fr.ec
               /\ R.lines = fr.lines
               /\ R.occ = fr.occ

C33_TerminatesAtEndOfStream ==
    /\ [][C33_ProgressStep /\ C33_EndOfStreamStep]_vars
    /\ []C33_LastLineAsTerminated

\* C33 witness: the stream "nr=7\ns=x", whose last line no end-of-line
\* closes, was read to its end; "s" received the value "x"
C33_Witness ==
    /\ CfgReturned
    /\ fr.buffer = <<"n", "r", "=", "7", "\n", "s", "=", "x">>
    /\ fr.eof
    /\ fr.ec = NoError
    /\ get(m_options, <<"s">>, "string").value = << <<"x">> >>
    /\ count(m_options, <<"s">>) = 1

\* ------------------------------------------------------------------
\* Properties of the lines chosen by wrap_line

\* the length of s without the white space it ends with
RECURSIVE TrimmedLen(_)
TrimmedLen(s) ==
    IF s = <<>> THEN 0
    ELSE IF isspace(s[Len(s)]) THEN TrimmedLen(SubSeq(s, 1, Len(s) - 1))
    ELSE Len(s)

\* the numbers of the set S in increasing order
RECURSIVE Increasing(_)
Increasing(S) ==
    IF S = {} THEN <<>>
    ELSE LET m == CHOOSE x \in S : \A y \in S : x <= y
         IN  <<m>> \o Increasing(S \ {m})

\* the break opportunities of a paragraph: the offsets at which a line may
\* end, the end of the paragraph being the last
BreakOpportunities(line) == wrap_offsets(line, 0, <<0>>)

\* every segment between two break opportunities of line fits in width
SegmentsFit(line, width) ==
    LET o == BreakOpportunities(line)
    IN  \A k \in 1..(Len(o) - 1) : o[k + 1] - o[k] <= width

\* the groupings of the segments of line into lines: each is the sequence
\* of the offsets where its lines start and end, from 0 to the end
Groupings(line) ==
    LET o == BreakOpportunities(line)
        inner == {o[k] : k \in 2..(Len(o) - 1)}
    IN  {<<0>> \o Increasing(G) \o <<Len(line)>> : G \in SUBSET inner}

\* no line of the grouping b is longer than width
Admissible(b, width) == \A k \in 1..(Len(b) - 1) : b[k + 1] - b[k] <= width

\* the sum, over the lines of the grouping b but the last, of the square
\* of what the line without its trailing white space leaves of width
RECURSIVE Badness(_, _, _, _)
Badness(line, width, b, k) ==
    IF k >= Len(b) - 1 THEN 0
    ELSE LET slack == width - TrimmedLen(SubSeq(line, b[k] + 1, b[k + 1]))
         IN  slack * slack + Badness(line, width, b, k + 1)

\* the grouping wrap_line chose for paragraph P
Chosen(P) ==
    [k \in 1..(P.last - P.first + 2) |->
        IF k = P.last - P.first + 2 THEN P.len
        ELSE fr.result[P.first + k - 1].pos - P.pos]

\* C34: for a paragraph all of whose segments fit in the width, the lines
\* chosen are a grouping of the segments into lines not longer than the
\* width, and no such grouping has a smaller sum of squared slack over its
\* lines but the last.
C34_MinimalBadness ==
    fr.op = "word_wrapper"
        => \A p \in 1..Len(fr.paragraphs) :
              LET P == fr.paragraphs[p]
                  line == View(fr.text, P)
              IN  (P.len > 0 /\ SegmentsFit(line, fr.m_width))
                    => /\ Chosen(P) \in Groupings(line)
                       /\ Admissible(Chosen(P), fr.m_width)
                       /\ \A b \in Groupings(line) :
                             Admissible(b, fr.m_width)
                                => Badness(line, fr.m_width, Chosen(P), 1)
                                      <= Badness(line, fr.m_width, b, 1)

\* C34 witness: "a a-a" at
\* width 3 was cut into "a " and "a-a" (badness 4) and not into "a a-" and
\* "a", which does not fit, nor into three lines (badness 5)
C34_Witness ==
    /\ WrapReturned
    /\ fr.text = <<"a", " ", "a", "-", "a">>
    /\ fr.m_width = 3
    /\ fr.result = <<[pos |-> 0, len |-> 2], [pos |-> 2, len |-> 3]>>
    /\ Cardinality({b \in Groupings(fr.text) : Admissible(b, 3)}) >= 2

\* the segment of line from break opportunity k to the next is wider
\* than width
OverWide(line, width, k) ==
    LET o == BreakOpportunities(line)
    IN  o[k + 1] - o[k] > width

\* C35: in a paragraph with a segment wider than the width, every such
\* segment is a line of its own, from the offset where it starts to the
\* first break opportunity after it, and every other line of the paragraph
\* is not longer than the width.
C35_OverWideSegmentAlone ==
    fr.op = "word_wrapper"
        => \A p \in 1..Len(fr.paragraphs) :
              LET P == fr.paragraphs[p]
                  line == View(fr.text, P)
                  o == BreakOpportunities(line)
                  wide == {k \in 1..(Len(o) - 1) : OverWide(line, fr.m_width, k)}
                  alone == {[pos |-> P.pos + o[k], len |-> o[k + 1] - o[k]] : k \in wide}
              IN  (P.len > 0 /\ wide # {})
                    => /\ \A v \in alone : \E k \in P.first..P.last : fr.result[k] = v
                       /\ \A k \in P.first..P.last :
                             fr.result[k] \in alone \/ fr.result[k].len <= fr.m_width

\* minima and breaks as wrap_line leaves them for the paragraph line
FinalTables(line, width) ==
    LET o == BreakOpportunities(line)
        n == Len(o) - 1
    IN  wrap_outer(line, width, o, 0,
                   [minima |-> [k \in 1..(n + 1) |-> IF k = 1 THEN 0 ELSE SIZE_MAX],
                    breaks |-> [k \in 1..(n + 1) |-> 0]])

\* what a line from break opportunity i to break opportunity j costs
CostOf(line, width, i, j) ==
    LET o == BreakOpportunities(line)
        slack == width - TrimmedLen(SubSeq(line, o[i + 1] + 1, o[j + 1]))
    IN  IF j < Len(o) - 1 THEN slack * slack ELSE 0

\* the least cost, in unbounded integers, of cutting line up to break
\* opportunity j into lines within width: the set that holds it, the empty
\* set if no sequence of lines within the width ends at j
RECURSIVE TrueMinimum(_, _, _)
TrueMinimum(line, width, j) ==
    IF j = 0 THEN {0}
    ELSE LET o == BreakOpportunities(line)
             sums == {c + CostOf(line, width, i, j) :
                         <<i, c>> \in UNION {{<<i, c>> : c \in TrueMinimum(line, width, i)} :
                                               i \in {i \in 0..(j - 1) :
                                                        o[j + 1] - o[i + 1] <= width}}}
         IN  {c \in sums : \A d \in sums : c <= d}

\* C36: the sum minima[i] + cost is never formed from a minima[i] that is
\* still the maximum of size_t, every minima[j] is the least cost in
\* unbounded integers (the maximum where break opportunity j cannot be
\* reached), and breaks[j] of a reachable j is a reachable i within the
\* width that gives that least cost.
C36_NoWrapAround ==
    fr.op = "word_wrapper"
        => \A p \in 1..Len(fr.paragraphs) :
              LET P == fr.paragraphs[p]
                  line == View(fr.text, P)
                  o == BreakOpportunities(line)
                  n == Len(o) - 1
                  mb == FinalTables(line, fr.m_width)
              IN  P.len > 0
                    => /\ \A j \in 1..(n - 1) : \A i \in 0..(j - 1) :
                             o[j + 1] - o[i + 1] <= fr.m_width => mb.minima[i + 1] # SIZE_MAX
                       /\ \A j \in 0..n :
                             IF TrueMinimum(line, fr.m_width, j) = {}
                             THEN mb.minima[j + 1] = SIZE_MAX
                             ELSE mb.minima[j + 1] \in TrueMinimum(line, fr.m_width, j)
                       /\ \A j \in 1..n :
                             TrueMinimum(line, fr.m_width, j) # {}
                                => LET i == mb.breaks[j + 1]
                                   IN  /\ i < j
                                       /\ o[j + 1] - o[i + 1] <= fr.m_width
                                       /\ \E c \in TrueMinimum(line, fr.m_width, i) :
                                             c + CostOf(line, fr.m_width, i, j)
                                                \in TrueMinimum(line, fr.m_width, j)

\* C37: wrap_line comes to an end for every paragraph and width: from
\* every offset before the end next_line_break returns a larger offset not
\* past the end, so the offsets start at 0, increase strictly and end at
\* the end of the paragraph; breaks[j] < j for every j >= 1, so the walk
\* back from the last offset takes at most as many steps as there are
\* segments and stops at offset 0.
C37_WrapLineTerminates ==
    fr.op = "word_wrapper"
        => \A p \in 1..Len(fr.paragraphs) :
              LET P == fr.paragraphs[p]
                  line == View(fr.text, P)
                  o == BreakOpportunities(line)
                  n == Len(o) - 1
                  mb == FinalTables(line, fr.m_width)
              IN  P.len > 0
                    => /\ \A b \in 0..(P.len - 1) :
                             /\ b < next_line_break(line, b)
                             /\ next_line_break(line, b) <= P.len
                       /\ o[1] = 0 /\ o[n + 1] = P.len
                       /\ \A k \in 1..n : o[k] < o[k + 1]
                       /\ \A j \in 1..n : mb.breaks[j + 1] < j
                       /\ P.last - P.first + 1 \in 1..n
                       /\ fr.result[P.first].pos = P.pos

\* C37 witness: the constructor returned for width 0 and for a width less
\* than every word of a paragraph of several segments
C37_Witness ==
    /\ WrapReturned
    /\ fr.m_width \in {0, 1}
    /\ \E p \in 1..Len(fr.paragraphs) :
          LET line == View(fr.text, fr.paragraphs[p])
              o == BreakOpportunities(line)
          IN  /\ Len(o) >= 3
              /\ \A k \in 1..(Len(o) - 1) : OverWide(line, fr.m_width, k)

\* ------------------------------------------------------------------
\* Properties of the conversion of an integer value

\* s without the zeros it starts with
RECURSIVE WithoutLeadingZeros(_)
WithoutLeadingZeros(s) ==
    IF s # <<>> /\ Head(s) = "0" THEN WithoutLeadingZeros(Tail(s)) ELSE s

\* the digit string d, of as many digits as e, is no greater than e
RECURSIVE DigitsNoGreater(_, _)
DigitsNoGreater(d, e) ==
    IF d = <<>> THEN TRUE
    ELSE IF DigitValue(Head(d)) # DigitValue(Head(e))
         THEN DigitValue(Head(d)) < DigitValue(Head(e))
         ELSE DigitsNoGreater(Tail(d), Tail(e))

\* the whole of s is a decimal literal of a value of int: an optional minus
\* sign, then digits only, at least one, of a value from -2^31 to 2^31 - 1
IsIntLiteral(s) ==
    LET neg == s # <<>> /\ Head(s) = "-"
        body == IF neg THEN Tail(s) ELSE s
        d == WithoutLeadingZeros(body)
        limit == IF neg THEN <<"2", "1", "4", "7", "4", "8", "3", "6", "4", "8">>
                 ELSE <<"2", "1", "4", "7", "4", "8", "3", "6", "4", "7">>
    IN  /\ body # <<>>
        /\ \A p \in 1..Len(body) : body[p] \in Digits
        /\ \/ Len(d) < Len(limit)
           \/ Len(d) = Len(limit) /\ DigitsNoGreater(d, limit)

\* the errors of a conversion
ConversionErrors == {invalid_argument, result_out_of_range}

\* C38: when a parser, of argv or of a configuration stream, has given an
\* option of type int a text that is not as a whole a decimal literal of a
\* value of int, ec holds a conversion error; no such text goes with a
\* clear ec.
C38_IntTextChecked ==
    fr.op \in ParserOps
        => \A n \in 1..Len(fr.occ) :
              (/\ m_options[fr.occ[n].opt].type = "int"
               /\ ~IsIntLiteral(fr.occ[n].arg))
                 => fr.ec \in ConversionErrors

\* ------------------------------------------------------------------
\* Properties of the error for an unknown option

\* the option name that the token tok asks for and the registry opts does
\* not hold: the text between "--" and "=" of a long token, the first
\* character without an option of a short token
AttemptedName(opts, tok) ==
    IF Len(tok) >= 2 /\ tok[2] = "-"
    THEN LET body == From(tok, 3)
             p == Find(body, "=")
         IN  IF p = 0 THEN body ELSE SubSeq(body, 1, p - 1)
    ELSE LET q == CHOOSE q \in 2..Len(tok) :
                     /\ get_option_short(opts, tok[q]) = 0
                     /\ \A r \in 2..(q - 1) : get_option_short(opts, tok[r]) # 0
         IN  <<tok[q]>>

\* the name whose lookup made parse of argv fail with unknown_option: that
\* of the last token of the shortest start of argv that fails so
UnknownNameOf(opts, operands, ign, argv) ==
    LET k == CHOOSE k \in 1..Len(argv) :
                 /\ parse(opts, operands, ign, SubSeq(argv, 1, k)).ec = unknown_option
                 /\ \A j \in 1..(k - 1) :
                       parse(opts, operands, ign, SubSeq(argv, 1, j)).ec # unknown_option
    IN  AttemptedName(opts, argv[k])

\* C39: the error that a parse failing with unknown_option hands back, the
\* error_code of the overload with ec as well as the system_error thrown
\* by the overload without, tells which option name was asked for: a call
\* on the same config object that hands back the same error asked for the
\* same name.
C39_UnknownOptionNamed ==
    (ParseReturned /\ fr.ec = unknown_option)
        => \A argv \in ArgvsFor(fr.opts0) :
              LET R == parse(fr.opts0, fr.operands0, m_ignore_unknown, argv)
                  same == UnknownNameOf(fr.opts0, fr.operands0, m_ignore_unknown, argv)
                             = UnknownNameOf(fr.opts0, fr.operands0, m_ignore_unknown, fr.argv)
              IN  /\ R.ec = fr.ec => same
                  /\ parse_throws(fr.opts0, fr.operands0, m_ignore_unknown, argv)
                        = parse_throws(fr.opts0, fr.operands0, m_ignore_unknown, fr.argv)
                     => same

====
